---- MODULE Spec2Model ----
(***************************************************************************)
(* Incremental diff engine of data-source-app: the snapshot store written  *)
(* by NormalizedPostgreSQLExporter, and IncrementalDiffService, which      *)
(* compares the last two sync runs of a connection.                        *)
(*                                                                         *)
(* Strings are modelled as tuples of '/'-free segments (<<"public">> is    *)
(* "public"), JSON values as [t |-> json type, v |-> text of the value].   *)
(***************************************************************************)
EXTENDS Integers, Sequences, FiniteSets, TLC

(***************************************************************************)
(* Bounds                                                                  *)
(***************************************************************************)
MaxRowsPerKey == 2
MaxExports == 1
MaxSyncIds == 3
MaxDiffRuns == 1
MaxSavedBeforeFailure == 1
MaxBuilderCalls == 2
MaxTotalColumns == 8
MaxColumnMetrics == 3
MaxCommentBody == 3
MaxAttempts == 2

(***************************************************************************)
(* JSON values as psycopg hands them to Python                             *)
(***************************************************************************)
S(x) == <<x>>

None == [t |-> "null", v |-> S("null")]
Str(s) == [t |-> "str", v |-> s]
Num(n) == [t |-> "num", v |-> S(n)]
Bool(b) == [t |-> "bool", v |-> S(IF b THEN "true" ELSE "false")]
\* a JSON array is read as a list
List(xs) == [t |-> "list", v |-> xs]
\* a JSON object is read as a dict
Map(v) == [t |-> "map", v |-> v]

\* SQL NULL / Python None where a text is expected (a key component)
NULL == S("<NULL>")

\* a JSONB column that holds JSON null (or SQL NULL) is read as None
NoMap == [none |-> TRUE]

EmptyMap == [f \in {} |-> None]

\* the number a bool counts as in a Python comparison
BoolAsNum(x) == IF x.v = S("true") THEN S("1") ELSE S("0")

\* Python's == on two decoded JSON values (val_1 != val_2 is its negation): lists
\* and dicts compare their items with ==, a bool compares as the number it counts as
RECURSIVE PyEq(_, _)
PyEq(a, b) ==
    IF a.t = "list" /\ b.t = "list"
    THEN /\ Len(a.v) = Len(b.v)
         /\ \A i \in DOMAIN a.v : PyEq(a.v[i], b.v[i])
    ELSE IF a.t = "map" /\ b.t = "map"
    THEN /\ DOMAIN a.v = DOMAIN b.v
         /\ \A k \in DOMAIN a.v : PyEq(a.v[k], b.v[k])
    ELSE IF a.t = b.t THEN a.v = b.v
    ELSE IF a.t = "bool" /\ b.t = "num" THEN BoolAsNum(a) = b.v
    ELSE IF a.t = "num" /\ b.t = "bool" THEN a.v = BoolAsNum(b)
    ELSE FALSE

\* dict.get(key): None for a missing key
Get(m, k) == IF k \in DOMAIN m THEN m[k] ELSE None

\* asset.get('attributes', {}) or {}
OrEmpty(m) == IF m = NoMap THEN EmptyMap ELSE m

\* jsonb ->> 'field': the text of the value, SQL NULL for a missing field or JSON null
JsonText(m, k) ==
    IF m = NoMap THEN NULL
    ELSE IF Get(m, k).t = "null" THEN NULL ELSE Get(m, k).v

Coalesce(x, dflt) == IF x = NULL THEN dflt ELSE x

\* no quality score computed yet
NoSummary == [op |-> "none"]

(***************************************************************************)
(* _calculate_asset_diff                                                   *)
(***************************************************************************)
NoAsset == [absent |-> TRUE]

DiffResult(ct, d, a1, a2) ==
    [change_type |-> ct, differences |-> d, sync_run_1_data |-> a1, sync_run_2_data |-> a2]

\* variant: custom_attributes are not compared
Differences_attributes_only(attrs_1, attrs_2, custom_attrs_1, custom_attrs_2) ==
    LET akeys == {k \in DOMAIN attrs_1 \cup DOMAIN attrs_2 :
                      ~PyEq(Get(attrs_1, k), Get(attrs_2, k))}
    IN  [p \in {<<"attributes", k>> : k \in akeys} |->
            [old |-> Get(attrs_1, p[2]), new |-> Get(attrs_2, p[2])]]

\* the entries the two loops put into `differences`
Differences(attrs_1, attrs_2, custom_attrs_1, custom_attrs_2) ==
    LET akeys == {k \in DOMAIN attrs_1 \cup DOMAIN attrs_2 :
                      ~PyEq(Get(attrs_1, k), Get(attrs_2, k))}
        ckeys == {k \in DOMAIN custom_attrs_1 \cup DOMAIN custom_attrs_2 :
                      ~PyEq(Get(custom_attrs_1, k), Get(custom_attrs_2, k))}
        paths == {<<"attributes", k>> : k \in akeys}
                     \cup {<<"custom_attributes", k>> : k \in ckeys}
    IN  [p \in paths |->
            IF p[1] = "attributes"
            THEN [old |-> Get(attrs_1, p[2]), new |-> Get(attrs_2, p[2])]
            ELSE [old |-> Get(custom_attrs_1, p[2]), new |-> Get(custom_attrs_2, p[2])]]

\* variant: created_at is compared as well
calculate_asset_diff_with_created_at(asset_1, asset_2) ==
    IF asset_1 = NoAsset /\ asset_2 = NoAsset THEN DiffResult("unchanged", EmptyMap, NoAsset, NoAsset)
    ELSE IF asset_1 = NoAsset THEN DiffResult("added", EmptyMap, NoAsset, asset_2)
    ELSE IF asset_2 = NoAsset THEN DiffResult("removed", EmptyMap, asset_1, NoAsset)
    ELSE LET compared == Differences(OrEmpty(asset_1.attributes), OrEmpty(asset_2.attributes),
                                     OrEmpty(asset_1.custom_attributes),
                                     OrEmpty(asset_2.custom_attributes))
             stamp == [p \in {<<"created_at">>} |->
                          [old |-> asset_1.created_at, new |-> asset_2.created_at]]
             differences == IF asset_1.created_at # asset_2.created_at
                            THEN compared @@ stamp ELSE compared
         IN  IF DOMAIN differences # {}
             THEN DiffResult("modified", differences, asset_1, asset_2)
             ELSE DiffResult("unchanged", EmptyMap, asset_1, asset_2)

calculate_asset_diff(asset_1, asset_2) ==
    IF asset_1 = NoAsset /\ asset_2 = NoAsset THEN DiffResult("unchanged", EmptyMap, NoAsset, NoAsset)
    ELSE IF asset_1 = NoAsset THEN DiffResult("added", EmptyMap, NoAsset, asset_2)
    ELSE IF asset_2 = NoAsset THEN DiffResult("removed", EmptyMap, asset_1, NoAsset)
    ELSE LET differences == Differences(OrEmpty(asset_1.attributes), OrEmpty(asset_2.attributes),
                                        OrEmpty(asset_1.custom_attributes),
                                        OrEmpty(asset_2.custom_attributes))
         IN  IF DOMAIN differences # {}
             THEN DiffResult("modified", differences, asset_1, asset_2)
             ELSE DiffResult("unchanged", EmptyMap, asset_1, asset_2)

(***************************************************************************)
(* NormalizedEntityBuilder                                                 *)
(***************************************************************************)

\* the builder's context: [connection_name, tenant_id, connector_name, sync_id, sync_timestamp]
Builder(connection_name, sync_id, now) ==
    [connection_name |-> connection_name, tenant_id |-> S("default"),
     connector_name |-> S("postgres"), sync_id |-> sync_id, sync_timestamp |-> now]

\* variant: the path starts at the connector
build_qualified_name_from_connector(b, parts) == b.connector_name \o parts

\* "/".join([tenant_id, connector_name, *parts]); a string is its tuple of '/'-free segments
build_qualified_name(b, parts) == b.tenant_id \o b.connector_name \o parts

Entity(b, type_name, name, attributes, custom_attributes) ==
    [typeName |-> type_name, status |-> "ACTIVE", name |-> name,
     connectionName |-> b.connection_name, tenantId |-> b.tenant_id,
     lastSyncRun |-> b.sync_id, lastSyncRunAt |-> b.sync_timestamp,
     connectorName |-> b.connector_name,
     attributes |-> attributes, customAttributes |-> custom_attributes]

create_database(b, database_name) ==
    LET qualified_name == build_qualified_name(b, database_name)
    IN  Entity(b, "Database", database_name,
            [qualifiedName |-> Str(qualified_name),
             connectionQualifiedName |-> Str(build_qualified_name(b, <<>>)),
             databaseName |-> Str(database_name),
             databaseQualifiedName |-> Str(qualified_name)],
            EmptyMap)

create_schema(b, database_name, schema_name) ==
    LET qualified_name == build_qualified_name(b, database_name \o schema_name)
        database_qualified_name == build_qualified_name(b, database_name)
    IN  Entity(b, "Schema", schema_name,
            [qualifiedName |-> Str(qualified_name),
             connectionQualifiedName |-> Str(build_qualified_name(b, <<>>)),
             databaseName |-> Str(database_name),
             databaseQualifiedName |-> Str(database_qualified_name),
             schemaName |-> Str(schema_name),
             schemaQualifiedName |-> Str(qualified_name),
             database |-> Map([typeName |-> Str(S("Database")),
                               attributes |-> Map(EmptyMap),
                               uniqueAttributes |->
                                   Map([qualifiedName |-> Str(database_qualified_name)])])],
            EmptyMap)

create_table(b, database_name, schema_name, table_name, table_type) ==
    Entity(b, "Table", table_name,
        [qualifiedName |-> Str(build_qualified_name(b, database_name \o schema_name \o table_name)),
         connectionQualifiedName |-> Str(build_qualified_name(b, <<>>)),
         databaseName |-> Str(database_name),
         databaseQualifiedName |-> Str(build_qualified_name(b, database_name)),
         schemaName |-> Str(schema_name),
         schemaQualifiedName |-> Str(build_qualified_name(b, database_name \o schema_name))],
        [table_type |-> Str(table_type),
         is_insertable_into |-> Str(S("YES")),
         is_typed |-> Str(S("NO")),
         self_referencing_col_name |-> Str(S(""))])

\* what a call gives back when Python cannot bind its arguments
TypeError == [raised |-> S("TypeError")]

\* a call create_table(database_name, schema_name, table_name, table_type, **kwargs):
\* the signature has no **kwargs, so any extra keyword is an unexpected keyword
\* argument and the body is not entered
create_table_call(b, database_name, schema_name, table_name, table_type, kwargs) ==
    IF DOMAIN kwargs # {} THEN TypeError
    ELSE create_table(b, database_name, schema_name, table_name, table_type)

\* variant: the attributes carry the time the builder was made
create_column_stamped(b, database_name, schema_name, table_name, column_name, data_type, is_nullable, ordinal_position, kwargs) ==
    LET defaults == [ordinal_position |-> Num(ordinal_position),
                     is_self_referencing |-> Str(S("NO")),
                     type_name |-> Str(data_type),
                     is_generated |-> Str(S("NEVER")),
                     is_identity |-> Str(S("NO")),
                     identity_cycle |-> Str(S("NO"))]
        custom_attributes == [k \in DOMAIN defaults \cup DOMAIN kwargs |->
                                  IF k \in DOMAIN kwargs THEN kwargs[k] ELSE defaults[k]]
    IN  Entity(b, "Column", column_name,
            [qualifiedName |-> Str(build_qualified_name(b,
                                   database_name \o schema_name \o table_name \o column_name)),
             connectionQualifiedName |-> Str(build_qualified_name(b, <<>>)),
             databaseName |-> Str(database_name),
             databaseQualifiedName |-> Str(build_qualified_name(b, database_name)),
             schemaName |-> Str(schema_name),
             schemaQualifiedName |-> Str(build_qualified_name(b, database_name \o schema_name)),
             tableName |-> Str(table_name),
             tableQualifiedName |-> Str(build_qualified_name(b,
                                        database_name \o schema_name \o table_name)),
             dataType |-> Str(data_type),
             isNullable |-> Bool(is_nullable),
             order |-> Num(ordinal_position),
             lastSyncRunAt |-> [t |-> "num", v |-> <<b.sync_timestamp>>]],
            custom_attributes)

\* kwargs: the extra keyword facts, merged over the defaults (dict.update)
create_column(b, database_name, schema_name, table_name, column_name, data_type, is_nullable, ordinal_position, kwargs) ==
    LET defaults == [ordinal_position |-> Num(ordinal_position),
                     is_self_referencing |-> Str(S("NO")),
                     type_name |-> Str(data_type),
                     is_generated |-> Str(S("NEVER")),
                     is_identity |-> Str(S("NO")),
                     identity_cycle |-> Str(S("NO"))]
        custom_attributes == [k \in DOMAIN defaults \cup DOMAIN kwargs |->
                                  IF k \in DOMAIN kwargs THEN kwargs[k] ELSE defaults[k]]
    IN  Entity(b, "Column", column_name,
            [qualifiedName |-> Str(build_qualified_name(b,
                                   database_name \o schema_name \o table_name \o column_name)),
             connectionQualifiedName |-> Str(build_qualified_name(b, <<>>)),
             databaseName |-> Str(database_name),
             databaseQualifiedName |-> Str(build_qualified_name(b, database_name)),
             schemaName |-> Str(schema_name),
             schemaQualifiedName |-> Str(build_qualified_name(b, database_name \o schema_name)),
             tableName |-> Str(table_name),
             tableQualifiedName |-> Str(build_qualified_name(b,
                                        database_name \o schema_name \o table_name)),
             dataType |-> Str(data_type),
             isNullable |-> Bool(is_nullable),
             order |-> Num(ordinal_position)],
            custom_attributes)

(***************************************************************************)
(* The snapshot store: normalized_schemas / _tables / _columns             *)
(***************************************************************************)
Kinds == {"schema", "table", "column"}

\* the row one INSERT of _export_normalized_* writes; created_at is the column default
StoredRow(sync_id, e, now) ==
    [sync_id |-> sync_id, type_name |-> e.typeName, status |-> e.status, name |-> e.name,
     connection_name |-> e.connectionName, tenant_id |-> e.tenantId,
     last_sync_run |-> e.lastSyncRun, last_sync_run_at |-> e.lastSyncRunAt,
     connector_name |-> e.connectorName,
     attributes |-> e.attributes, custom_attributes |-> e.customAttributes,
     created_at |-> now]

\* SELECT DISTINCT name, attributes, custom_attributes, created_at ... WHERE sync_id = %s
get_schemas_for_sync_run(normalized, sync_id) ==
    {[name |-> r.name, attributes |-> r.attributes,
      custom_attributes |-> r.custom_attributes, created_at |-> r.created_at] :
        r \in {x \in normalized : x.sync_id = sync_id}}

get_tables_for_sync_run(normalized, sync_id) ==
    {[schema_name |-> JsonText(r.attributes, "schemaName"),
      name |-> r.name, attributes |-> r.attributes,
      custom_attributes |-> r.custom_attributes, created_at |-> r.created_at] :
        r \in {x \in normalized : x.sync_id = sync_id}}

get_columns_for_sync_run(normalized, sync_id) ==
    {[schema_name |-> JsonText(r.attributes, "schemaName"),
      table_name |-> Coalesce(JsonText(r.attributes, "tableName"), S("unknown")),
      name |-> r.name, attributes |-> r.attributes,
      custom_attributes |-> r.custom_attributes, created_at |-> r.created_at] :
        r \in {x \in normalized : x.sync_id = sync_id}}

GetRows(kind, normalized, sync_id) ==
    CASE kind = "schema" -> get_schemas_for_sync_run(normalized, sync_id)
      [] kind = "table" -> get_tables_for_sync_run(normalized, sync_id)
      [] kind = "column" -> get_columns_for_sync_run(normalized, sync_id)

\* the composite key the lookup dictionaries are built on
KeyOf(kind, row) ==
    CASE kind = "schema" -> <<row.name>>
      [] kind = "table" -> <<row.schema_name, row.name>>
      [] kind = "column" -> <<row.schema_name, row.table_name, row.name>>

\* {key(r): r for r in rows}: one row per key; of several rows with one key the
\* last one fetched wins, and the query fixes no order
LookupDicts(kind, rows) ==
    LET keys == {KeyOf(kind, r) : r \in rows}
    IN  {d \in [keys -> rows] : \A k \in keys : KeyOf(kind, d[k]) = k}

\* variant: the loop runs over the newer run's keys only
AllKeys_newer_only(dict_1, dict_2) == DOMAIN dict_2

\* set(dict_1.keys()) | set(dict_2.keys())
AllKeys(dict_1, dict_2) == DOMAIN dict_1 \cup DOMAIN dict_2

\* dict.get(key)
Lookup(d, k) == IF k \in DOMAIN d THEN d[k] ELSE NoAsset

\* the diff_result computed for every key of the loop
Classify(dict_1, dict_2) ==
    [k \in AllKeys(dict_1, dict_2) |-> calculate_asset_diff(Lookup(dict_1, k), Lookup(dict_2, k))]

\* variant: every diff_result is saved
ShouldSave_always(diff_result) == TRUE

\* if diff_result.change_type != 'unchanged': save
ShouldSave(diff_result) == diff_result.change_type # "unchanged"

ChangedKeys(classified) == {k \in DOMAIN classified : ShouldSave(classified[k])}

\* variant: the two snapshots are stored in each other's column
DiffRecord_snapshots_swapped(diff_sync_id, key, diff_result) ==
    [diff_sync_id |-> diff_sync_id, key |-> key, change_type |-> diff_result.change_type,
     sync_run_1_data |-> diff_result.sync_run_2_data,
     sync_run_2_data |-> diff_result.sync_run_1_data,
     differences |-> diff_result.differences]

\* the row _save_schema_diff / _save_table_diff / _save_column_diff inserts
DiffRecord(diff_sync_id, key, diff_result) ==
    [diff_sync_id |-> diff_sync_id, key |-> key, change_type |-> diff_result.change_type,
     sync_run_1_data |-> diff_result.sync_run_1_data,
     sync_run_2_data |-> diff_result.sync_run_2_data,
     differences |-> diff_result.differences]

\* the classifications a phase can compute for the two sync runs: one per way the
\* unordered result sets fill the two lookup dictionaries
PhaseOutcomes(kind, normalized, sync_run_1_id, sync_run_2_id) ==
    {Classify(d1, d2) :
        d1 \in LookupDicts(kind, GetRows(kind, normalized, sync_run_1_id)),
        d2 \in LookupDicts(kind, GetRows(kind, normalized, sync_run_2_id))}

(***************************************************************************)
(* State                                                                   *)
(***************************************************************************)
VARIABLES
    sync_runs,                \* table sync_runs
    normalized_schemas,       \* table normalized_schemas
    normalized_tables,        \* table normalized_tables
    normalized_columns,       \* table normalized_columns
    diff_sync_runs,           \* table diff_sync_runs
    incremental_diff_schema,  \* table incremental_diff_schema
    incremental_diff_table,   \* table incremental_diff_table
    incremental_diff_column,  \* table incremental_diff_column
    quality_metrics_runs,     \* table quality_metrics_runs
    clock,                    \* the store's NOW(), one tick per transaction
    export_call,              \* the export call in progress, or what the last one gave its caller
    run,                      \* locals of the run_incremental_diff call in progress
    fwd,                      \* classifications of diffing (sync run 1, sync run 2)
    bwd,                      \* classifications of diffing (sync run 2, sync run 1)
    ppc,                      \* progress of the two-way comparison
    builder_calls,            \* the calls made on the extractor and on its entity builder
    summary                   \* the last quality score or quality summary computed

vars == <<sync_runs, normalized_schemas, normalized_tables, normalized_columns,
          diff_sync_runs, incremental_diff_schema, incremental_diff_table,
          incremental_diff_column, quality_metrics_runs, clock, export_call, run,
          fwd, bwd, ppc, builder_calls, summary>>

storeVars == <<sync_runs, normalized_schemas, normalized_tables, normalized_columns,
               quality_metrics_runs, clock>>
diffVars == <<diff_sync_runs, incremental_diff_schema, incremental_diff_table,
              incremental_diff_column>>
pureVars == <<fwd, bwd, ppc, builder_calls, summary>>

Normalized(kind) ==
    CASE kind = "schema" -> normalized_schemas
      [] kind = "table" -> normalized_tables
      [] kind = "column" -> normalized_columns

IncrementalDiff(kind) ==
    CASE kind = "schema" -> incremental_diff_schema
      [] kind = "table" -> incremental_diff_table
      [] kind = "column" -> incremental_diff_column

(***************************************************************************)
(* Inputs: the entity trees handed to export_metadata                      *)
(***************************************************************************)
Connections == {S("acme"), S("beta")}
QualityConnections == {S("acme")}
SyncIds == 1..MaxSyncIds
NoSyncId == 0

\* what the extracted database looks like
Toggles == [analytics : BOOLEAN, orders : BOOLEAN, emailNullable : BOOLEAN, emailComment : BOOLEAN]
BaseDb == [analytics |-> FALSE, orders |-> FALSE, emailNullable |-> FALSE, emailComment |-> FALSE]
SourceDbs(connection_name) ==
    IF connection_name = S("acme")
    THEN {BaseDb, [BaseDb EXCEPT !.emailNullable = TRUE], [BaseDb EXCEPT !.analytics = TRUE]}
    ELSE {BaseDb}

Database == S("db")

WithTables(schema, tables) == schema @@ [tables |-> tables]
WithColumns(table, columns) == table @@ [columns |-> columns]

\* the list of NormalizedSchema (tables and columns embedded) a caller of
\* export_metadata builds for one database with the builder's create_schema,
\* create_table and create_column
BuildSchemas(b, src) ==
    LET users == WithColumns(
            create_table(b, Database, S("public"), S("users"), S("BASE TABLE")),
            <<create_column(b, Database, S("public"), S("users"), S("id"),
                            S("integer"), FALSE, "1", EmptyMap),
              create_column(b, Database, S("public"), S("users"), S("email"),
                            S("text"), src.emailNullable, "2",
                            IF src.emailComment THEN [comment |-> Str(S("contact"))]
                                                ELSE EmptyMap)>>)
        orders == WithColumns(
            create_table(b, Database, S("public"), S("orders"), S("BASE TABLE")),
            <<create_column(b, Database, S("public"), S("orders"), S("id"),
                            S("integer"), FALSE, "1", EmptyMap),
              create_column(b, Database, S("public"), S("orders"), S("total"),
                            S("numeric"), TRUE, "2", EmptyMap)>>)
        events == WithColumns(
            create_table(b, Database, S("analytics"), S("events"), S("BASE TABLE")),
            <<create_column(b, Database, S("analytics"), S("events"), S("ts"),
                            S("timestamp"), FALSE, "1", EmptyMap)>>)
        public == WithTables(create_schema(b, Database, S("public")),
                             <<users>> \o (IF src.orders THEN <<orders>> ELSE <<>>))
        analytics == WithTables(create_schema(b, Database, S("analytics")), <<events>>)
    IN  <<public>> \o (IF src.analytics THEN <<analytics>> ELSE <<>>)

Range(seq) == {seq[i] : i \in DOMAIN seq}

\* for schema in schemas / for table in schema.tables / for column in table.columns
SchemasOf(schemas) == Range(schemas)
TablesOf(schemas) == UNION {Range(schema.tables) : schema \in Range(schemas)}
ColumnsOf(schemas) == UNION {Range(table.columns) : table \in TablesOf(schemas)}

EntitiesOf(kind, schemas) ==
    CASE kind = "schema" -> SchemasOf(schemas)
      [] kind = "table" -> TablesOf(schemas)
      [] kind = "column" -> ColumnsOf(schemas)

(***************************************************************************)
(* NormalizedPostgreSQLExporter                                            *)
(***************************************************************************)
\* str(e) of the exceptions the store's driver raises, and no message
NoError == S("none")
StoreReadError == S("store read failed")
StoreWriteError == S("store write failed")

\* column defaults of the store's tables
SyncTimestampDefault(now) == now
CreatedAtDefault(now) == now

\* INSERT INTO sync_runs (...) VALUES (..., 'running') ON CONFLICT (sync_id) DO NOTHING
InsertSyncRun(runs, sync_id, connector_name, connection_name, tenant_id, now) ==
    IF \E r \in runs : r.sync_id = sync_id THEN runs
    ELSE runs \cup {[sync_id |-> sync_id, connector_name |-> connector_name,
                      connection_name |-> connection_name, tenant_id |-> tenant_id,
                      status |-> "running", error_message |-> NULL,
                      sync_timestamp |-> SyncTimestampDefault(now)]}

\* _create_sync_run: the sync id and context of the first schema
create_sync_run(runs, schemas, now) ==
    InsertSyncRun(runs, schemas[1].lastSyncRun, schemas[1].connectorName,
                  schemas[1].connectionName, schemas[1].tenantId, now)

\* _ensure_sync_run_exists
ensure_sync_run_exists(runs, sync_id, schemas, now) ==
    InsertSyncRun(runs, sync_id, schemas[1].connectorName,
                  schemas[1].connectionName, schemas[1].tenantId, now)

\* _finalize_sync_run: UPDATE sync_runs SET status, error_message WHERE sync_id
finalize_sync_run(runs, sync_id, status, error_message) ==
    {IF r.sync_id = sync_id
     THEN [r EXCEPT !.status = status, !.error_message = error_message]
     ELSE r : r \in runs}

\* sync ids are opaque tokens: a fresh one is the next unused number
UsedSyncIds == {r.sync_id : r \in sync_runs}
FreshSyncId == IF UsedSyncIds = {} THEN 1 ELSE 1 + CHOOSE m \in UsedSyncIds : \A n \in UsedSyncIds : n <= m
CallableSyncIds == (UsedSyncIds \cup {FreshSyncId}) \cap SyncIds

\* str(e) of ValueError("No schemas provided for sync run")
NoSchemasError == S("No schemas provided for sync run")

\* an export call as its caller saw it: the sync id returned, or the exception raised
\* with the sync_id local the except block held; `at` is the time of the call
NoExportCall ==
    [op |-> "none", sync_id |-> NoSyncId, outcome |-> "none", error |-> NoError, at |-> 0]

ExportCall(op, sync_id, outcome, error, at) ==
    [op |-> op, sync_id |-> sync_id, outcome |-> outcome, error |-> error, at |-> at]

\* export_metadata(schemas, sync_id): one transaction, committed as a whole
export_metadata(schemas, sync_id_arg) ==
    LET sync_id == IF sync_id_arg = NoSyncId THEN schemas[1].lastSyncRun ELSE sync_id_arg
        created == IF sync_id_arg = NoSyncId
                   THEN create_sync_run(sync_runs, schemas, clock)
                   ELSE ensure_sync_run_exists(sync_runs, sync_id, schemas, clock)
    IN  /\ Len(schemas) > 0
        /\ normalized_schemas' = normalized_schemas \cup
               {StoredRow(sync_id, e, CreatedAtDefault(clock)) : e \in SchemasOf(schemas)}
        /\ normalized_tables' = normalized_tables \cup
               {StoredRow(sync_id, e, CreatedAtDefault(clock)) : e \in TablesOf(schemas)}
        /\ normalized_columns' = normalized_columns \cup
               {StoredRow(sync_id, e, CreatedAtDefault(clock)) : e \in ColumnsOf(schemas)}
        /\ sync_runs' = finalize_sync_run(created, sync_id, "completed", NULL)
        /\ clock' = clock + 1
        /\ export_call' = ExportCall("export_metadata", sync_id, "returned", NoError, clock)
        /\ UNCHANGED quality_metrics_runs

ExportMetadata ==
    /\ clock <= MaxExports
    /\ \E connection_name \in Connections, sync_id \in CallableSyncIds :
       \E src \in SourceDbs(connection_name), sync_id_arg \in {NoSyncId, sync_id} :
           export_metadata(BuildSchemas(Builder(connection_name, sync_id, clock), src),
                           sync_id_arg)
    /\ UNCHANGED <<diffVars, run, pureVars>>

\* INSERT INTO quality_metrics_runs ... ON CONFLICT (sync_id) DO NOTHING, then
\* _finalize_quality_metrics_run
InsertQualityRun(qruns, sync_id) ==
    IF \E q \in qruns : q.sync_id = sync_id THEN qruns
    ELSE qruns \cup {[sync_id |-> sync_id, status |-> "running"]}

finalize_quality_metrics_run(qruns, sync_id, status) ==
    {IF q.sync_id = sync_id THEN [q EXCEPT !.status = status] ELSE q : q \in qruns}

\* export_quality_metrics(metrics, sync_id, connection_name, ...): one transaction;
\* it registers its sync id in sync_runs and finalizes quality_metrics_runs only
export_quality_metrics(sync_id, connection_name, connector_name, tenant_id) ==
    /\ sync_runs' = InsertSyncRun(sync_runs, sync_id, connector_name, connection_name,
                                  tenant_id, clock)
    /\ quality_metrics_runs' =
           finalize_quality_metrics_run(InsertQualityRun(quality_metrics_runs, sync_id),
                                        sync_id, "completed")
    /\ clock' = clock + 1
    /\ export_call' = ExportCall("export_quality_metrics", sync_id, "returned", NoError, clock)
    /\ UNCHANGED <<normalized_schemas, normalized_tables, normalized_columns>>

ExportQualityMetrics ==
    /\ clock <= MaxExports
    /\ \E connection_name \in QualityConnections, sync_id \in CallableSyncIds :
           export_quality_metrics(sync_id, connection_name, S("postgres"), S("default"))
    /\ UNCHANGED <<diffVars, run, pureVars>>

\* the statements of export_metadata's transaction, in order
ExportStatements == <<"sync_run", "schemas", "tables", "columns", "finalize", "commit">>

\* export_metadata raises at one of its statements: the except block rolls the
\* transaction back, which undoes the sync run row inserted in it; the UPDATE to
\* 'failed' that follows opens a new transaction, which get_connection rolls back
\* when the exception passes through it, and the connection is closed
export_metadata_fails(schemas, sync_id_arg, failed_at) ==
    LET sync_id == IF sync_id_arg # NoSyncId THEN sync_id_arg
                   ELSE IF failed_at = "sync_run" THEN NoSyncId
                   ELSE schemas[1].lastSyncRun
        error == IF Len(schemas) = 0 THEN NoSchemasError ELSE StoreWriteError
    IN  /\ Len(schemas) = 0 => failed_at = "sync_run"
        /\ clock' = clock + 1
        /\ export_call' = ExportCall("export_metadata", sync_id, "raised", error, clock)
        /\ UNCHANGED <<sync_runs, normalized_schemas, normalized_tables, normalized_columns,
                       quality_metrics_runs>>

ExportMetadataFails ==
    /\ clock <= MaxExports
    /\ \E connection_name \in Connections, sync_id \in CallableSyncIds :
       \E src \in SourceDbs(connection_name), sync_id_arg \in {NoSyncId, sync_id} :
       \E schemas \in {BuildSchemas(Builder(connection_name, sync_id, clock), src), <<>>} :
       \E failed_at \in Range(ExportStatements) :
           export_metadata_fails(schemas, sync_id_arg, failed_at)
    /\ UNCHANGED <<diffVars, run, pureVars>>

\* export_quality_metrics raises: rolled back in the same way
export_quality_metrics_fails(sync_id) ==
    /\ clock' = clock + 1
    /\ export_call' = ExportCall("export_quality_metrics", sync_id, "raised",
                                 StoreWriteError, clock)
    /\ UNCHANGED <<sync_runs, normalized_schemas, normalized_tables, normalized_columns,
                   quality_metrics_runs>>

ExportQualityMetricsFails ==
    /\ clock <= MaxExports
    /\ \E sync_id \in CallableSyncIds : export_quality_metrics_fails(sync_id)
    /\ UNCHANGED <<diffVars, run, pureVars>>

(***************************************************************************)
(* IncrementalDiffService                                                  *)
(***************************************************************************)
NoDiffId == 0

\* f"Not enough sync runs found for connection: {connection_id}. Need at least 2 runs."
NotEnoughSyncRuns(connection_id) ==
    S("Not enough sync runs found for connection: ") \o connection_id
        \o S(". Need at least 2 runs.")

\* variant: the query without its WHERE clause
LastTwoRows_any_connection(runs, connection_id) ==
    LET Newest(rs) == CHOOSE r \in rs : \A o \in rs : o.sync_timestamp <= r.sync_timestamp
    IN  IF runs = {} THEN <<>>
        ELSE IF Cardinality(runs) = 1 THEN <<Newest(runs).sync_id>>
        ELSE <<Newest(runs).sync_id, Newest(runs \ {Newest(runs)}).sync_id>>

\* SELECT sync_id FROM sync_runs WHERE connection_name = %s
\* ORDER BY sync_timestamp DESC LIMIT 2
LastTwoRows(runs, connection_id) ==
    LET mine == {r \in runs : r.connection_name = connection_id}
        Newest(rs) == CHOOSE r \in rs : \A o \in rs : o.sync_timestamp <= r.sync_timestamp
    IN  IF mine = {} THEN <<>>
        ELSE IF Cardinality(mine) = 1 THEN <<Newest(mine).sync_id>>
        ELSE <<Newest(mine).sync_id, Newest(mine \ {Newest(mine)}).sync_id>>

\* variant: the two rows returned in the order fetched
get_last_two_sync_runs_as_fetched(runs, connection_id) ==
    LET results == LastTwoRows(runs, connection_id)
    IN  IF Len(results) < 2 THEN <<>> ELSE <<results[1], results[2]>>

\* get_last_two_sync_runs: (older, newer), or <<>> for None
get_last_two_sync_runs(runs, connection_id) ==
    LET results == LastTwoRows(runs, connection_id)
    IN  IF Len(results) < 2 THEN <<>> ELSE <<results[2], results[1]>>

NoClassification == [k \in Kinds |-> EmptyMap]

\* the locals of a run_incremental_diff call; ret is what the caller receives
IdleRun ==
    [pc |-> "idle", connection_id |-> NULL, found |-> -1,
     sync_run_1_id |-> NoSyncId, sync_run_2_id |-> NoSyncId, diff_sync_id |-> NoDiffId,
     changed |-> [k \in Kinds |-> 0], classified |-> NoClassification,
     failed_in |-> "none", error |-> NoError, ret |-> [success |-> FALSE, error |-> NoError]]

\* variant: the except block reports success
FailureResult_success(e, connection_id) ==
    [success |-> TRUE, error |-> e, connection_id |-> connection_id]

\* the dictionary returned from the except block
FailureResult(e, connection_id) ==
    [success |-> FALSE, error |-> e, connection_id |-> connection_id]

NotEnoughResult(connection_id) ==
    [success |-> FALSE, error |-> NotEnoughSyncRuns(connection_id)]

\* variant: total_changes leaves the columns out
SuccessResult_without_columns(r) ==
    [success |-> TRUE, diff_sync_id |-> r.diff_sync_id, connection_id |-> r.connection_id,
     sync_run_1_id |-> r.sync_run_1_id, sync_run_2_id |-> r.sync_run_2_id,
     schemas_changed |-> r.changed["schema"], tables_changed |-> r.changed["table"],
     columns_changed |-> r.changed["column"],
     total_changes |-> r.changed["schema"] + r.changed["table"]]

\* result = {"success": True, ...}
SuccessResult(r) ==
    [success |-> TRUE, diff_sync_id |-> r.diff_sync_id, connection_id |-> r.connection_id,
     sync_run_1_id |-> r.sync_run_1_id, sync_run_2_id |-> r.sync_run_2_id,
     schemas_changed |-> r.changed["schema"], tables_changed |-> r.changed["table"],
     columns_changed |-> r.changed["column"],
     total_changes |-> r.changed["schema"] + r.changed["table"] + r.changed["column"]]

\* a caller invokes run_incremental_diff(connection_id)
Call ==
    /\ run.pc \in {"idle", "returned", "raised"}
    /\ Cardinality(diff_sync_runs) < MaxDiffRuns
    /\ \E connection_id \in Connections :
           run' = [IdleRun EXCEPT !.pc = "resolve", !.connection_id = connection_id]
    /\ UNCHANGED <<export_call, storeVars, diffVars, pureVars>>

\* sync_runs = self.get_last_two_sync_runs(connection_id); if not sync_runs: return {...}
Resolve ==
    /\ run.pc = "resolve"
    /\ LET sync_runs_found == get_last_two_sync_runs(sync_runs, run.connection_id)
       IN  run' = IF sync_runs_found = <<>>
                  THEN [run EXCEPT !.pc = "returned", !.ret = NotEnoughResult(run.connection_id),
                                   !.found = Len(LastTwoRows(sync_runs, run.connection_id))]
                  ELSE [run EXCEPT !.pc = "create", !.found = 2,
                                   !.sync_run_1_id = sync_runs_found[1],
                                   !.sync_run_2_id = sync_runs_found[2]]
    /\ UNCHANGED <<export_call, storeVars, diffVars, pureVars>>

\* the query raises: the except block runs with no diff_sync_id among the locals
ResolveFails ==
    /\ run.pc = "resolve"
    /\ run' = [run EXCEPT !.pc = "returned", !.error = StoreReadError, !.failed_in = "resolve",
                          !.ret = FailureResult(StoreReadError, run.connection_id)]
    /\ UNCHANGED <<export_call, storeVars, diffVars, pureVars>>

\* variant: the id of the latest diff run is handed out again
FreshDiffId_reused == IF diff_sync_runs = {} THEN 1 ELSE Cardinality(diff_sync_runs)

\* uuid4: a diff sync id no earlier diff run has
FreshDiffId == 1 + Cardinality(diff_sync_runs)

\* variant: the record names the two newest sync runs at the time of the INSERT
create_diff_sync_run_latest_pair(druns, diff_sync_id, connection_id, sync_run_1_id, sync_run_2_id) ==
    LET latest == get_last_two_sync_runs(sync_runs, connection_id)
    IN  druns \cup {[diff_sync_id |-> diff_sync_id, connection_id |-> connection_id,
                      sync_run_1_id |-> latest[1], sync_run_2_id |-> latest[2],
                      status |-> "running", completed |-> FALSE,
                      total_schemas_changed |-> 0, total_tables_changed |-> 0,
                      total_columns_changed |-> 0, error_message |-> NoError]}

\* create_diff_sync_run: INSERT INTO diff_sync_runs (...) VALUES (..., 'running')
create_diff_sync_run(druns, diff_sync_id, connection_id, sync_run_1_id, sync_run_2_id) ==
    druns \cup {[diff_sync_id |-> diff_sync_id, connection_id |-> connection_id,
                  sync_run_1_id |-> sync_run_1_id, sync_run_2_id |-> sync_run_2_id,
                  status |-> "running", completed |-> FALSE,
                  total_schemas_changed |-> 0, total_tables_changed |-> 0,
                  total_columns_changed |-> 0, error_message |-> NoError]}

CreateDiffRun ==
    /\ run.pc = "create"
    /\ diff_sync_runs' = create_diff_sync_run(diff_sync_runs, FreshDiffId, run.connection_id,
                                              run.sync_run_1_id, run.sync_run_2_id)
    /\ run' = [run EXCEPT !.pc = "schema", !.diff_sync_id = FreshDiffId]
    /\ UNCHANGED <<export_call, storeVars, incremental_diff_schema, incremental_diff_table,
                   incremental_diff_column, pureVars>>

\* the INSERT raises before diff_sync_id is bound
CreateDiffRunFails ==
    /\ run.pc = "create"
    /\ run' = [run EXCEPT !.pc = "returned", !.error = StoreWriteError, !.failed_in = "create",
                          !.ret = FailureResult(StoreWriteError, run.connection_id)]
    /\ UNCHANGED <<export_call, storeVars, diffVars, pureVars>>

\* variant: the column phase is called before the table phase
NextPc_columns_first(kind) ==
    CASE kind = "schema" -> "column"
      [] kind = "column" -> "table"
      [] kind = "table" -> "finalize"

\* the statement that follows a phase in run_incremental_diff
NextPc(kind) ==
    CASE kind = "schema" -> "table"
      [] kind = "table" -> "column"
      [] kind = "column" -> "finalize"

\* the diff tables after the records of `keys` were saved
SaveDiffs(kind, diff_sync_id, classified, keys) ==
    LET recs == {DiffRecord(diff_sync_id, k, classified[k]) : k \in keys}
    IN  /\ incremental_diff_schema' =
               IF kind = "schema" THEN incremental_diff_schema \cup recs
                                  ELSE incremental_diff_schema
        /\ incremental_diff_table' =
               IF kind = "table" THEN incremental_diff_table \cup recs
                                 ELSE incremental_diff_table
        /\ incremental_diff_column' =
               IF kind = "column" THEN incremental_diff_column \cup recs
                                  ELSE incremental_diff_column

\* changes_count += 1 for every record saved
ChangesCount(classified) == Cardinality(ChangedKeys(classified))

\* variant: a table or column whose schema is not in the newer run gets no record of
\* its own (the removal cascades from the schema record)
calculate_diff_cascading(kind) ==
    /\ \E classified \in PhaseOutcomes(kind, Normalized(kind),
                                        run.sync_run_1_id, run.sync_run_2_id) :
          LET live == {r.name : r \in get_schemas_for_sync_run(normalized_schemas,
                                                                run.sync_run_2_id)}
              keys == {k \in ChangedKeys(classified) : kind = "schema" \/ k[1] \in live}
          IN  /\ SaveDiffs(kind, run.diff_sync_id, classified, keys)
              /\ run' = [run EXCEPT !.pc = NextPc(kind),
                                    !.changed[kind] = Cardinality(keys),
                                    !.classified[kind] = classified]
    /\ UNCHANGED <<export_call, storeVars, diff_sync_runs, pureVars>>

\* calculate_schema_diff / calculate_table_diff / calculate_column_diff run to the end
calculate_diff(kind) ==
    /\ \E classified \in PhaseOutcomes(kind, Normalized(kind),
                                        run.sync_run_1_id, run.sync_run_2_id) :
          /\ SaveDiffs(kind, run.diff_sync_id, classified, ChangedKeys(classified))
          /\ run' = [run EXCEPT !.pc = NextPc(kind),
                                !.changed[kind] = ChangesCount(classified),
                                !.classified[kind] = classified]
    /\ UNCHANGED <<export_call, storeVars, diff_sync_runs, pureVars>>

\* a phase raises: on a read nothing was saved, on a save the records of the keys
\* looped over before it stay committed
calculate_diff_fails(kind) ==
    /\ \E classified \in PhaseOutcomes(kind, Normalized(kind),
                                        run.sync_run_1_id, run.sync_run_2_id) :
       \E saved \in SUBSET ChangedKeys(classified) :
          /\ Cardinality(saved) <= MaxSavedBeforeFailure
          /\ saved = {} \/ saved # ChangedKeys(classified)
          /\ SaveDiffs(kind, run.diff_sync_id, classified, saved)
          /\ \E e \in {StoreReadError, StoreWriteError} :
                /\ e = StoreReadError => saved = {}
                /\ e = StoreWriteError => saved # ChangedKeys(classified)
                /\ run' = [run EXCEPT !.pc = "except", !.error = e, !.failed_in = kind]
    /\ UNCHANGED <<export_call, storeVars, diff_sync_runs, pureVars>>

\* schemas_changed = self.calculate_schema_diff(diff_sync_id, sync_run_1_id, sync_run_2_id)
CalculateSchemaDiff ==
    /\ run.pc = "schema"
    /\ calculate_diff("schema")

CalculateSchemaDiffFails ==
    /\ run.pc = "schema"
    /\ calculate_diff_fails("schema")

\* tables_changed = self.calculate_table_diff(...)
CalculateTableDiff ==
    /\ run.pc = "table"
    /\ calculate_diff("table")

CalculateTableDiffFails ==
    /\ run.pc = "table"
    /\ calculate_diff_fails("table")

\* columns_changed = self.calculate_column_diff(...)
CalculateColumnDiff ==
    /\ run.pc = "column"
    /\ calculate_diff("column")

CalculateColumnDiffFails ==
    /\ run.pc = "column"
    /\ calculate_diff_fails("column")

\* variant: the UPDATE of a failed run sets the status only
update_diff_sync_run_status_no_message(druns, diff_sync_id, status, total_schemas_changed, total_tables_changed, total_columns_changed, error_message) ==
    {IF d.diff_sync_id # diff_sync_id THEN d
     ELSE IF status = "completed"
     THEN [d EXCEPT !.status = status, !.completed = TRUE,
                    !.total_schemas_changed = total_schemas_changed,
                    !.total_tables_changed = total_tables_changed,
                    !.total_columns_changed = total_columns_changed]
     ELSE [d EXCEPT !.status = status] : d \in druns}

\* update_diff_sync_run_status
update_diff_sync_run_status(druns, diff_sync_id, status, total_schemas_changed, total_tables_changed, total_columns_changed, error_message) ==
    {IF d.diff_sync_id # diff_sync_id THEN d
     ELSE IF status = "completed"
     THEN [d EXCEPT !.status = status, !.completed = TRUE,
                    !.total_schemas_changed = total_schemas_changed,
                    !.total_tables_changed = total_tables_changed,
                    !.total_columns_changed = total_columns_changed]
     ELSE [d EXCEPT !.status = status, !.error_message = error_message] : d \in druns}

\* update_diff_sync_run_status(diff_sync_id, 'completed', ...); return result
Finalize ==
    /\ run.pc = "finalize"
    /\ diff_sync_runs' = update_diff_sync_run_status(diff_sync_runs, run.diff_sync_id,
                              "completed", run.changed["schema"], run.changed["table"],
                              run.changed["column"], NoError)
    /\ run' = [run EXCEPT !.pc = "returned", !.ret = SuccessResult(run)]
    /\ UNCHANGED <<export_call, storeVars, incremental_diff_schema, incremental_diff_table,
                   incremental_diff_column, pureVars>>

FinalizeFails ==
    /\ run.pc = "finalize"
    /\ run' = [run EXCEPT !.pc = "except", !.error = StoreWriteError, !.failed_in = "finalize"]
    /\ UNCHANGED <<export_call, storeVars, diffVars, pureVars>>

\* except Exception as e: update_diff_sync_run_status(diff_sync_id, 'failed',
\* error_message=str(e)); return {"success": False, "error": str(e), ...}
Except ==
    /\ run.pc = "except"
    /\ diff_sync_runs' = update_diff_sync_run_status(diff_sync_runs, run.diff_sync_id,
                              "failed", 0, 0, 0, run.error)
    /\ run' = [run EXCEPT !.pc = "returned",
                          !.ret = FailureResult(run.error, run.connection_id)]
    /\ UNCHANGED <<export_call, storeVars, incremental_diff_schema, incremental_diff_table,
                   incremental_diff_column, pureVars>>

\* the status update inside the except block raises: that exception leaves the call
ExceptFails ==
    /\ run.pc = "except"
    /\ run' = [run EXCEPT !.pc = "raised", !.ret = [raised |-> StoreWriteError]]
    /\ UNCHANGED <<export_call, storeVars, diffVars, pureVars>>

(***************************************************************************)
(* The system: exports and diffs of the store                              *)
(***************************************************************************)
\* the store holds zero, one or two earlier exports of acme: sync id i of n was
\* exported at time i - n, before the clock of this history starts; srcs[i] is the
\* database as it was extracted for export i
SeedSchemas(i, n, srcs) == BuildSchemas(Builder(S("acme"), i, i - n), srcs[i])

SeedRuns(n, srcs) ==
    UNION {finalize_sync_run(create_sync_run({}, SeedSchemas(i, n, srcs), i - n),
                             i, "completed", NULL) : i \in 1..n}

SeedRows(n, srcs, kind) ==
    UNION {{StoredRow(i, e, CreatedAtDefault(i - n)) :
               e \in EntitiesOf(kind, SeedSchemas(i, n, srcs))} : i \in 1..n}

Seeded(n, srcs) ==
    /\ sync_runs = SeedRuns(n, srcs)
    /\ normalized_schemas = SeedRows(n, srcs, "schema")
    /\ normalized_tables = SeedRows(n, srcs, "table")
    /\ normalized_columns = SeedRows(n, srcs, "column")
    /\ diff_sync_runs = {}
    /\ incremental_diff_schema = {}
    /\ incremental_diff_table = {}
    /\ incremental_diff_column = {}
    /\ quality_metrics_runs = {}
    /\ clock = 1
    /\ export_call = NoExportCall
    /\ run = IdleRun
    /\ fwd = NoClassification
    /\ bwd = NoClassification
    /\ ppc = "off"
    /\ builder_calls = <<>>
    /\ summary = NoSummary

\* the earlier exports all saw the same database
Init == \E n \in 0..2 : Seeded(n, [i \in 1..n |-> BaseDb])

\* exports and diff calls against a store that answers every statement
Next ==
    \/ ExportMetadata
    \/ ExportQualityMetrics
    \/ Call
    \/ Resolve
    \/ CreateDiffRun
    \/ CalculateSchemaDiff
    \/ CalculateTableDiff
    \/ CalculateColumnDiff
    \/ Finalize

Spec == Init /\ [][Next]_vars

(***************************************************************************)
(* Diff calls against a store whose statements can fail                    *)
(***************************************************************************)
\* the databases the earlier exports saw: those of acme, and acme with table orders
SeedDbs == SourceDbs(S("acme")) \cup {[BaseDb EXCEPT !.orders = TRUE]}

\* the earlier exports saw any of the databases
InitFaults == \E n \in 0..2 : \E srcs \in [1..n -> SeedDbs] : Seeded(n, srcs)

NextFaults ==
    \/ Call
    \/ Resolve
    \/ ResolveFails
    \/ CreateDiffRun
    \/ CreateDiffRunFails
    \/ CalculateSchemaDiff
    \/ CalculateSchemaDiffFails
    \/ CalculateTableDiff
    \/ CalculateTableDiffFails
    \/ CalculateColumnDiff
    \/ CalculateColumnDiffFails
    \/ Finalize
    \/ FinalizeFails
    \/ Except
    \/ ExceptFails

SpecFaults == InitFaults /\ [][NextFaults]_vars

(***************************************************************************)
(* A diff called again after an attempt that created a diff run            *)
(***************************************************************************)
\* the caller invokes run_incremental_diff for the same connection once more
Retry ==
    /\ run.pc \in {"returned", "raised"}
    /\ run.diff_sync_id # NoDiffId
    /\ Cardinality(diff_sync_runs) < MaxAttempts
    /\ run' = [IdleRun EXCEPT !.pc = "resolve", !.connection_id = run.connection_id]
    /\ UNCHANGED <<export_call, storeVars, diffVars, pureVars>>

\* two earlier exports of acme, the second of a database with one more schema, one
\* more table or a changed column
InitRerun == \E src \in SeedDbs \ {BaseDb} : Seeded(2, <<BaseDb, src>>)

NextRerun ==
    \/ Call
    \/ Retry
    \/ Resolve
    \/ ResolveFails
    \/ CreateDiffRun
    \/ CreateDiffRunFails
    \/ CalculateSchemaDiff
    \/ CalculateSchemaDiffFails
    \/ CalculateTableDiff
    \/ CalculateTableDiffFails
    \/ CalculateColumnDiff
    \/ CalculateColumnDiffFails
    \/ Finalize
    \/ FinalizeFails
    \/ Except
    \/ ExceptFails

SpecRerun == InitRerun /\ [][NextRerun]_vars

(***************************************************************************)
(* Exports into a store whose statements can fail                          *)
(***************************************************************************)
NextExports ==
    \/ ExportMetadata
    \/ ExportMetadataFails
    \/ ExportQualityMetrics
    \/ ExportQualityMetricsFails

SpecExports == InitFaults /\ [][NextExports]_vars

(***************************************************************************)
(* export_metadata statement by statement, a diff reading alongside        *)
(*                                                                         *)
(* While the call is in progress export_call holds its locals: the schemas *)
(* handed in, the sync_id local, the number of statements executed and the *)
(* store's tables as the call's open transaction sees them.                *)
(***************************************************************************)
\* variant: the exporter's connection commits every statement by itself
Visible_autocommit(committed, view) == view

\* what the connections of other callers read from a table that an open
\* transaction has written to: psycopg.connect opens the exporter's connection
\* without autocommit, so its writes stay its own until COMMIT
Visible(committed, view) == committed

\* with database_service.get_production_connection_with_schema() as conn: ... BEGIN
begin_export(schemas, sync_id_arg) ==
    /\ export_call' =
           [op |-> "export_metadata", sync_id |-> sync_id_arg, outcome |-> "open",
            error |-> NoError, at |-> clock, schemas |-> schemas, done |-> 0,
            view |-> [sync_runs |-> sync_runs, schema |-> normalized_schemas,
                      table |-> normalized_tables, column |-> normalized_columns]]
    /\ UNCHANGED storeVars

\* the transaction's view of the tables after the statement; NOW() is the time
\* the transaction began
execute_statement(call, statement) ==
    LET schemas == call.schemas
        sync_id == IF call.sync_id # NoSyncId THEN call.sync_id ELSE schemas[1].lastSyncRun
        Rows(kind) == {StoredRow(sync_id, e, CreatedAtDefault(call.at)) :
                          e \in EntitiesOf(kind, schemas)}
    IN  CASE statement = "sync_run" ->
                 [call.view EXCEPT !.sync_runs =
                     IF call.sync_id = NoSyncId
                     THEN create_sync_run(@, schemas, call.at)
                     ELSE ensure_sync_run_exists(@, sync_id, schemas, call.at)]
          [] statement = "schemas" -> [call.view EXCEPT !.schema = @ \cup Rows("schema")]
          [] statement = "tables" -> [call.view EXCEPT !.table = @ \cup Rows("table")]
          [] statement = "columns" -> [call.view EXCEPT !.column = @ \cup Rows("column")]
          [] statement = "finalize" ->
                 [call.view EXCEPT !.sync_runs = finalize_sync_run(@, sync_id, "completed", NULL)]

\* one export call is followed through its statements
BeginExport ==
    /\ export_call = NoExportCall
    /\ clock <= MaxExports
    /\ \E connection_name \in Connections, sync_id \in CallableSyncIds :
       \E src \in SourceDbs(connection_name), sync_id_arg \in {NoSyncId, sync_id} :
       \E schemas \in {BuildSchemas(Builder(connection_name, sync_id, clock), src), <<>>} :
           begin_export(schemas, sync_id_arg)
    /\ UNCHANGED <<diffVars, run, pureVars>>

\* one of the statements before COMMIT is executed
ExportStatement ==
    /\ export_call.outcome = "open"
    /\ export_call.done + 1 < Len(ExportStatements)
    /\ Len(export_call.schemas) > 0
    /\ LET view == execute_statement(export_call, ExportStatements[export_call.done + 1])
       IN  /\ export_call' =
                  [export_call EXCEPT !.view = view, !.done = @ + 1,
                      !.sync_id = IF @ # NoSyncId THEN @
                                  ELSE export_call.schemas[1].lastSyncRun]
           /\ sync_runs' = Visible(sync_runs, view.sync_runs)
           /\ normalized_schemas' = Visible(normalized_schemas, view.schema)
           /\ normalized_tables' = Visible(normalized_tables, view.table)
           /\ normalized_columns' = Visible(normalized_columns, view.column)
    /\ UNCHANGED <<quality_metrics_runs, clock, diffVars, run, pureVars>>

\* cur.execute("COMMIT"); return sync_id
ExportCommit ==
    /\ export_call.outcome = "open"
    /\ export_call.done + 1 = Len(ExportStatements)
    /\ sync_runs' = export_call.view.sync_runs
    /\ normalized_schemas' = export_call.view.schema
    /\ normalized_tables' = export_call.view.table
    /\ normalized_columns' = export_call.view.column
    /\ clock' = clock + 1
    /\ export_call' = ExportCall("export_metadata", export_call.sync_id, "returned",
                                 NoError, export_call.at)
    /\ UNCHANGED <<quality_metrics_runs, diffVars, run, pureVars>>

\* the next statement raises: ROLLBACK drops what the transaction wrote, the UPDATE
\* to 'failed' after it is rolled back by get_connection, and the exception is
\* raised to the caller
ExportStatementFails ==
    /\ export_call.outcome = "open"
    /\ Len(export_call.schemas) = 0 => export_call.done = 0
    /\ export_call' =
           ExportCall("export_metadata", export_call.sync_id, "raised",
                      IF Len(export_call.schemas) = 0 THEN NoSchemasError ELSE StoreWriteError,
                      export_call.at)
    /\ clock' = clock + 1
    /\ UNCHANGED <<sync_runs, normalized_schemas, normalized_tables, normalized_columns,
                   quality_metrics_runs, diffVars, run, pureVars>>

NextTxn ==
    \/ BeginExport
    \/ ExportStatement
    \/ ExportCommit
    \/ ExportStatementFails
    \/ Call
    \/ Resolve
    \/ CreateDiffRun
    \/ CalculateSchemaDiff
    \/ CalculateTableDiff
    \/ CalculateColumnDiff
    \/ Finalize

SpecTxn == Init /\ [][NextTxn]_vars

(***************************************************************************)
(* Two-way comparison of two stored snapshots                              *)
(*                                                                         *)
(* The store is drawn from the snapshots exports can leave behind: sync    *)
(* run 1 and sync run 2 each hold schema public, table users, column id    *)
(* and any rows for column email, optionally schema analytics with its     *)
(* table and column.  Several email rows under one sync id are what two    *)
(* exports with the same sync id leave behind.                             *)
(***************************************************************************)
\* the email column as exported: isNullable missing, null, false or true in
\* attributes; custom_attributes as built, with a comment, with a null comment, or null
EmailVariants ==
    <<[nullable |-> "false", custom |-> "built"],
      [nullable |-> "true", custom |-> "built"],
      [nullable |-> "absent", custom |-> "comment"],
      [nullable |-> "null", custom |-> "nullcomment"],
      [nullable |-> "false", custom |-> "nomap"]>>

Without(m, k) == [f \in DOMAIN m \ {k} |-> m[f]]

EmailEntity(b, variant) ==
    LET built == create_column(b, Database, S("public"), S("users"), S("email"),
                               S("text"), variant.nullable = "true", "2", EmptyMap)
        attributes ==
            CASE variant.nullable = "absent" -> Without(built.attributes, "isNullable")
              [] variant.nullable = "null" -> [built.attributes EXCEPT !.isNullable = None]
              [] OTHER -> built.attributes
        custom ==
            CASE variant.custom = "comment" ->
                     built.customAttributes @@ [comment |-> Str(S("contact"))]
              [] variant.custom = "nullcomment" -> built.customAttributes @@ [comment |-> None]
              [] variant.custom = "nomap" -> NoMap
              [] OTHER -> built.customAttributes
    IN  [built EXCEPT !.attributes = attributes, !.customAttributes = custom]

\* the rows of one sync run: emails is the set of variants (by number) stored for email
SnapshotRows(kind, sync_id, emails, analytics) ==
    LET b == Builder(S("acme"), sync_id, sync_id)
        schemas == BuildSchemas(b, [BaseDb EXCEPT !.analytics = analytics])
        built == CASE kind = "schema" -> SchemasOf(schemas)
                   [] kind = "table" -> TablesOf(schemas)
                   [] kind = "column" -> {c \in ColumnsOf(schemas) : c.name # S("email")}
    IN  {StoredRow(sync_id, e, sync_id) : e \in built}
        \cup (IF kind = "column"
               THEN {StoredRow(sync_id, EmailEntity(b, EmailVariants[i]), sync_id + i) :
                        i \in emails}
               ELSE {})

EmailChoices == {es \in SUBSET DOMAIN EmailVariants : Cardinality(es) <= MaxRowsPerKey}

InitDiff ==
    /\ \E e1 \in EmailChoices, e2 \in EmailChoices, a1 \in BOOLEAN, a2 \in BOOLEAN :
          /\ normalized_schemas = SnapshotRows("schema", 1, e1, a1)
                                      \cup SnapshotRows("schema", 2, e2, a2)
          /\ normalized_tables = SnapshotRows("table", 1, e1, a1)
                                     \cup SnapshotRows("table", 2, e2, a2)
          /\ normalized_columns = SnapshotRows("column", 1, e1, a1)
                                      \cup SnapshotRows("column", 2, e2, a2)
    /\ sync_runs = finalize_sync_run(finalize_sync_run(
                        InsertSyncRun(InsertSyncRun({}, 1, S("postgres"), S("acme"),
                                                    S("default"), 1),
                                      2, S("postgres"), S("acme"), S("default"), 2),
                        1, "completed", NULL), 2, "completed", NULL)
    /\ diff_sync_runs = {}
    /\ incremental_diff_schema = {}
    /\ incremental_diff_table = {}
    /\ incremental_diff_column = {}
    /\ quality_metrics_runs = {}
    /\ clock = 3
    /\ export_call = NoExportCall
    /\ run = IdleRun
    /\ fwd = NoClassification
    /\ bwd = NoClassification
    /\ ppc = "init"
    /\ builder_calls = <<>>
    /\ summary = NoSummary

\* the three phases applied to (sync run 1 as older, sync run 2 as newer)
DiffForward ==
    /\ ppc = "init"
    /\ \E cs \in PhaseOutcomes("schema", normalized_schemas, 1, 2),
          ct \in PhaseOutcomes("table", normalized_tables, 1, 2),
          cc \in PhaseOutcomes("column", normalized_columns, 1, 2) :
          fwd' = [k \in Kinds |-> CASE k = "schema" -> cs [] k = "table" -> ct
                                     [] k = "column" -> cc]
    /\ ppc' = "forward"
    /\ UNCHANGED <<export_call, storeVars, diffVars, run, bwd, builder_calls, summary>>

\* the three phases applied to (sync run 2 as older, sync run 1 as newer)
DiffBackward ==
    /\ ppc = "forward"
    /\ \E cs \in PhaseOutcomes("schema", normalized_schemas, 2, 1),
          ct \in PhaseOutcomes("table", normalized_tables, 2, 1),
          cc \in PhaseOutcomes("column", normalized_columns, 2, 1) :
          bwd' = [k \in Kinds |-> CASE k = "schema" -> cs [] k = "table" -> ct
                                     [] k = "column" -> cc]
    /\ ppc' = "both"
    /\ UNCHANGED <<export_call, storeVars, diffVars, run, fwd, builder_calls, summary>>

NextDiff ==
    \/ DiffForward
    \/ DiffBackward

SpecDiff == InitDiff /\ [][NextDiff]_vars

(***************************************************************************)
(* Comparison of one field's values                                        *)
(*                                                                         *)
(* Sync run 1 and sync run 2 each hold the same schema, table and columns; *)
(* column email carries the custom attribute tag, drawn for each run.      *)
(***************************************************************************)
\* JSON values of every type, among them pairs of different types that Python's ==
\* takes for equal, alone and inside a list or a map
TagValues ==
    {None, Num("5"), Str(S("5")), Num("1"), Bool(TRUE), Num("0"), Bool(FALSE),
     Str(S("true")),
     List(<<Num("1")>>), List(<<Bool(TRUE)>>), List(<<Num("1"), Num("1")>>),
     Map([a |-> Num("1")]), Map([a |-> Bool(TRUE)]), Map([b |-> Num("1")]),
     Map([a |-> List(<<Num("1")>>)]), Map([a |-> List(<<Num("0")>>)])}

\* the rows of one sync run whose email column was built with tag = value
TaggedRows(kind, sync_id, value) ==
    LET b == Builder(S("acme"), sync_id, sync_id)
        email == create_column(b, Database, S("public"), S("users"), S("email"),
                               S("text"), FALSE, "2", [tag |-> value])
    IN  SnapshotRows(kind, sync_id, {}, FALSE)
        \cup (IF kind = "column" THEN {StoredRow(sync_id, email, sync_id)} ELSE {})

InitValues ==
    /\ \E v1 \in TagValues, v2 \in TagValues :
          /\ normalized_schemas = TaggedRows("schema", 1, v1) \cup TaggedRows("schema", 2, v2)
          /\ normalized_tables = TaggedRows("table", 1, v1) \cup TaggedRows("table", 2, v2)
          /\ normalized_columns = TaggedRows("column", 1, v1) \cup TaggedRows("column", 2, v2)
    /\ sync_runs = finalize_sync_run(finalize_sync_run(
                        InsertSyncRun(InsertSyncRun({}, 1, S("postgres"), S("acme"),
                                                    S("default"), 1),
                                      2, S("postgres"), S("acme"), S("default"), 2),
                        1, "completed", NULL), 2, "completed", NULL)
    /\ diff_sync_runs = {}
    /\ incremental_diff_schema = {}
    /\ incremental_diff_table = {}
    /\ incremental_diff_column = {}
    /\ quality_metrics_runs = {}
    /\ clock = 3
    /\ export_call = NoExportCall
    /\ run = IdleRun
    /\ fwd = NoClassification
    /\ bwd = NoClassification
    /\ ppc = "init"
    /\ builder_calls = <<>>
    /\ summary = NoSummary

SpecValues == InitValues /\ [][NextDiff]_vars

(***************************************************************************)
(* Comparison of rows that differ outside attributes and custom_attributes *)
(*                                                                         *)
(* Sync run 1 and sync run 2 hold schema public, table users and its       *)
(* columns; the rows of the two runs differ in sync id, created_at,        *)
(* last_sync_run and last_sync_run_at, and those of sync run 2 carry a     *)
(* status, connection name, tenant id and connector name of their own.     *)
(***************************************************************************)
\* what the entities exported for sync run 2 carry in the fields that become the
\* row's status, connection_name, tenant_id and connector_name
RowContexts ==
    [status : {"ACTIVE", "DELETED"}, connection_name : {S("acme"), S("beta")},
     tenant_id : {S("default"), S("other")}, connector_name : {S("postgres"), S("mysql")}]

\* the databases behind the two runs: email nullable or not, with a comment or not
ContextDbs == {db \in Toggles : ~db.analytics /\ ~db.orders}

\* the rows of one sync run, stored from entities that carry the context
ContextRows(kind, sync_id, src, context) ==
    {[StoredRow(sync_id, e, CreatedAtDefault(sync_id)) EXCEPT
          !.status = context.status, !.connection_name = context.connection_name,
          !.tenant_id = context.tenant_id, !.connector_name = context.connector_name] :
        e \in EntitiesOf(kind, BuildSchemas(Builder(S("acme"), sync_id, sync_id), src))}

InitContexts ==
    /\ \E src1 \in ContextDbs, src2 \in ContextDbs, context \in RowContexts :
          LET built == [status |-> "ACTIVE", connection_name |-> S("acme"),
                        tenant_id |-> S("default"), connector_name |-> S("postgres")]
          IN  /\ normalized_schemas = ContextRows("schema", 1, src1, built)
                                          \cup ContextRows("schema", 2, src2, context)
              /\ normalized_tables = ContextRows("table", 1, src1, built)
                                         \cup ContextRows("table", 2, src2, context)
              /\ normalized_columns = ContextRows("column", 1, src1, built)
                                          \cup ContextRows("column", 2, src2, context)
    /\ sync_runs = finalize_sync_run(finalize_sync_run(
                        InsertSyncRun(InsertSyncRun({}, 1, S("postgres"), S("acme"),
                                                    S("default"), 1),
                                      2, S("postgres"), S("acme"), S("default"), 2),
                        1, "completed", NULL), 2, "completed", NULL)
    /\ diff_sync_runs = {}
    /\ incremental_diff_schema = {}
    /\ incremental_diff_table = {}
    /\ incremental_diff_column = {}
    /\ quality_metrics_runs = {}
    /\ clock = 3
    /\ export_call = NoExportCall
    /\ run = IdleRun
    /\ fwd = NoClassification
    /\ bwd = NoClassification
    /\ ppc = "init"
    /\ builder_calls = <<>>
    /\ summary = NoSummary

SpecContexts == InitContexts /\ [][NextDiff]_vars

(***************************************************************************)
(* Calls on the entity builder, by the extractor and directly              *)
(***************************************************************************)
\* builders made for sync 1 of acme at two different times, and for sync 2 of beta
BuilderContexts ==
    {Builder(S("acme"), 1, 1), Builder(S("acme"), 1, 2), Builder(S("beta"), 2, 1)}

\* schema "public" and schema "sales/eu"
SchemaNames == {S("public"), <<"sales", "eu">>}

\* the extra facts the extractor finds for a column
ColumnKwargs == {EmptyMap, [comment |-> Str(S("contact")), is_primary_key |-> Bool(FALSE)]}

\* what the catalog queries of _collect_table_metadata find for a table
TableFacts == {EmptyMap, [has_primary_key |-> Bool(TRUE), tablespace |-> Str(S("fast"))]}

\* _collect_table_metadata: four flags, false unless found, and the optional facts found
collect_table_metadata(found) ==
    LET metadata == [has_foreign_keys |-> Bool(FALSE), is_partitioned |-> Bool(FALSE),
                     has_indexes |-> Bool(FALSE), has_primary_key |-> Bool(FALSE)]
    IN  [k \in DOMAIN metadata \cup DOMAIN found |->
            IF k \in DOMAIN found THEN found[k] ELSE metadata[k]]

\* _extract_table_metadata up to the creation of the table entity:
\* self.builder.create_table(database_name, schema_name, table_name, table_type,
\* **table_metadata_info)
extract_table_metadata(b, database_name, schema_name, table_name, table_type, found) ==
    create_table_call(b, database_name, schema_name, table_name, table_type,
                      collect_table_metadata(found))

\* extract_schema_metadata: a table whose extraction raises is logged and skipped
extract_schema_metadata(b, database_name, schema_name, table_names, found) ==
    LET extracted == [i \in DOMAIN table_names |->
                         extract_table_metadata(b, database_name, schema_name,
                                                table_names[i], S("BASE TABLE"), found)]
    IN  WithTables(create_schema(b, database_name, schema_name),
                   SelectSeq(extracted, LAMBDA t : t # TypeError))

BuilderCall(op, b, args, result) == [op |-> op, builder |-> b, args |-> args, result |-> result]

CreateSchema ==
    /\ Len(builder_calls) < MaxBuilderCalls
    /\ \E b \in BuilderContexts, schema_name \in SchemaNames :
          builder_calls' = Append(builder_calls,
              BuilderCall("create_schema", b,
                          [database_name |-> Database, schema_name |-> schema_name],
                          create_schema(b, Database, schema_name)))
    /\ UNCHANGED <<export_call, storeVars, diffVars, run, fwd, bwd, ppc, summary>>

\* create_table called with positional arguments, and with extra keyword facts
CreateTable ==
    /\ Len(builder_calls) < MaxBuilderCalls
    /\ \E b \in BuilderContexts, schema_name \in SchemaNames, kwargs \in TableFacts :
          builder_calls' = Append(builder_calls,
              BuilderCall("create_table", b,
                          [database_name |-> Database, schema_name |-> schema_name,
                           table_name |-> S("users"), table_type |-> S("BASE TABLE"),
                           kwargs |-> kwargs],
                          create_table_call(b, Database, schema_name, S("users"),
                                            S("BASE TABLE"), kwargs)))
    /\ UNCHANGED <<export_call, storeVars, diffVars, run, fwd, bwd, ppc, summary>>

CreateColumn ==
    /\ Len(builder_calls) < MaxBuilderCalls
    /\ \E b \in BuilderContexts, schema_name \in SchemaNames, is_nullable \in BOOLEAN,
          kwargs \in ColumnKwargs :
          builder_calls' = Append(builder_calls,
              BuilderCall("create_column", b,
                          [database_name |-> Database, schema_name |-> schema_name,
                           table_name |-> S("users"), column_name |-> S("email"),
                           data_type |-> S("text"), is_nullable |-> is_nullable,
                           ordinal_position |-> "2", kwargs |-> kwargs],
                          create_column(b, Database, schema_name, S("users"), S("email"),
                                        S("text"), is_nullable, "2", kwargs)))
    /\ UNCHANGED <<export_call, storeVars, diffVars, run, fwd, bwd, ppc, summary>>

\* the extractor's call for one table of the schema
ExtractTableMetadata ==
    /\ Len(builder_calls) < MaxBuilderCalls
    /\ \E b \in BuilderContexts, schema_name \in SchemaNames, found \in TableFacts :
          builder_calls' = Append(builder_calls,
              BuilderCall("extract_table_metadata", b,
                          [database_name |-> Database, schema_name |-> schema_name,
                           table_name |-> S("users"), table_type |-> S("BASE TABLE"),
                           kwargs |-> collect_table_metadata(found)],
                          extract_table_metadata(b, Database, schema_name, S("users"),
                                                 S("BASE TABLE"), found)))
    /\ UNCHANGED <<export_call, storeVars, diffVars, run, fwd, bwd, ppc, summary>>

\* the extractor's call for a schema with tables users and orders
ExtractSchemaMetadata ==
    /\ Len(builder_calls) < MaxBuilderCalls
    /\ \E b \in BuilderContexts, schema_name \in SchemaNames, found \in TableFacts :
          builder_calls' = Append(builder_calls,
              BuilderCall("extract_schema_metadata", b,
                          [database_name |-> Database, schema_name |-> schema_name,
                           table_names |-> <<S("users"), S("orders")>>,
                           kwargs |-> collect_table_metadata(found)],
                          extract_schema_metadata(b, Database, schema_name,
                                                  <<S("users"), S("orders")>>, found)))
    /\ UNCHANGED <<export_call, storeVars, diffVars, run, fwd, bwd, ppc, summary>>

InitBuilder == Seeded(0, <<>>)

NextBuilder ==
    \/ CreateSchema
    \/ CreateTable
    \/ CreateColumn
    \/ ExtractTableMetadata
    \/ ExtractSchemaMetadata

SpecBuilder == InitBuilder /\ [][NextBuilder]_vars

(***************************************************************************)
(* _parse_tags_from_comment                                                *)
(*                                                                         *)
(* A comment is the tuple of its characters, NULL for None.                *)
(***************************************************************************)
Whitespace == {" "}

\* re.IGNORECASE: the letters of the pattern match in either case
Lower(c) ==
    CASE c = "T" -> "t" [] c = "A" -> "a" [] c = "G" -> "g" [] c = "S" -> "s"
      [] OTHER -> c

\* str.strip()
RECURSIVE LStrip(_)
LStrip(s) == IF s # <<>> /\ Head(s) \in Whitespace THEN LStrip(Tail(s)) ELSE s

RECURSIVE RStrip(_)
RStrip(s) ==
    IF s # <<>> /\ s[Len(s)] \in Whitespace THEN RStrip(SubSeq(s, 1, Len(s) - 1)) ELSE s

Strip(s) == RStrip(LStrip(s))

\* str.split(sep): the pieces between the separators, empty pieces included
RECURSIVE Split(_, _)
Split(s, sep) ==
    IF \E i \in DOMAIN s : s[i] = sep
    THEN LET i == CHOOSE j \in DOMAIN s : s[j] = sep /\ \A h \in 1..(j - 1) : s[h] # sep
         IN  <<SubSeq(s, 1, i - 1)>> \o Split(SubSeq(s, i + 1, Len(s)), sep)
    ELSE <<s>>

\* the pattern \[tags:\s*([^\]]+)\] matched at position i: group 1 ends before the
\* first "]" after the colon and holds at least one character; what \s* leaves to
\* it is whitespace, which strip() removes from the group anyway
TagPatternEnd(s, i) ==
    IF /\ i + 5 <= Len(s)
       /\ <<s[i], Lower(s[i + 1]), Lower(s[i + 2]), Lower(s[i + 3]), Lower(s[i + 4]), s[i + 5]>>
              = <<"[", "t", "a", "g", "s", ":">>
       /\ \E k \in (i + 6)..Len(s) : s[k] = "]"
    THEN LET k == CHOOSE j \in (i + 6)..Len(s) :
                      s[j] = "]" /\ \A h \in (i + 6)..(j - 1) : s[h] # "]"
         IN  IF k > i + 6 THEN k ELSE 0
    ELSE 0

\* re.search: the leftmost position the pattern matches at, 0 for no match
TagPatternSearch(s) ==
    IF \E i \in DOMAIN s : TagPatternEnd(s, i) # 0
    THEN CHOOSE i \in DOMAIN s :
             TagPatternEnd(s, i) # 0 /\ \A h \in 1..(i - 1) : TagPatternEnd(s, h) = 0
    ELSE 0

\* variant: empty items are kept
parse_tags_from_comment_keeping_empty(comment) ==
    IF comment = NULL \/ comment = <<>> THEN <<>>
    ELSE LET i == TagPatternSearch(comment)
         IN  IF i = 0 THEN <<>>
             ELSE LET tags_str == Strip(SubSeq(comment, i + 6, TagPatternEnd(comment, i) - 1))
                      items == Split(tags_str, ",")
                  IN  [n \in DOMAIN items |-> Strip(items[n])]

\* _parse_tags_from_comment (MetadataExtractor and PostgreSQLSource alike)
parse_tags_from_comment(comment) ==
    IF comment = NULL \/ comment = <<>> THEN <<>>
    ELSE LET i == TagPatternSearch(comment)
         IN  IF i = 0 THEN <<>>
             ELSE LET tags_str == Strip(SubSeq(comment, i + 6, TagPatternEnd(comment, i) - 1))
                      items == Split(tags_str, ",")
                      stripped == [n \in DOMAIN items |-> Strip(items[n])]
                  IN  SelectSeq(stripped, LAMBDA tag : tag # <<>>)

\* the comments of the unit test
TestComments ==
    {<<"T", "e", "s", "t", " ", "t", "a", "b", "l", "e", " ", "[", "t", "a", "g",
      "s", ":", " ", "t", "e", "s", "t", ",", "t", "a", "b", "l", "e", ",", "i",
      "m", "p", "o", "r", "t", "a", "n", "t", "]">>,
     <<"T", "e", "s", "t", " ", "t", "a", "b", "l", "e", " ", "w", "i", "t", "h",
      "o", "u", "t", " ", "t", "a", "g", "s">>,
     <<"T", "e", "s", "t", " ", "t", "a", "b", "l", "e", " ", "[", "T", "A", "G",
      "S", ":", " ", "T", "e", "s", "t", ",", "T", "a", "b", "l", "e", ",", "I",
      "m", "p", "o", "r", "t", "a", "n", "t", "]">>,
     <<"T", "e", "s", "t", " ", "t", "a", "b", "l", "e", " ", "[", "t", "a", "g",
      "s", ":", " ", "t", "e", "s", "t", ",", " ", "t", "a", "b", "l", "e", " ",
      ",", " ", "i", "m", "p", "o", "r", "t", "a", "n", "t", " ", "]">>}

\* comments put together from a text before, an opening in any letter case or a
\* near miss, up to MaxCommentBody characters, a closing bracket or none, and a
\* text after, which can be a second marker
CommentInputs ==
    {before \o opening \o body \o closing \o after :
        before \in {<<>>, <<"x", " ">>},
        opening \in {<<"[", "t", "a", "g", "s", ":">>, <<"[", "T", "A", "G", "S", ":">>,
                     <<"[", "T", "a", "g", "s", ":">>, <<"[", "t", "a", "g", ":">>, <<>>},
        body \in UNION {[1..n -> {"a", "B", ",", " "}] : n \in 0..MaxCommentBody},
        closing \in {<<"]">>, <<>>},
        after \in {<<>>, <<" ", "y">>, <<"[", "t", "a", "g", "s", ":", "c", "]">>}}
    \cup TestComments \cup {NULL}

ParseTagsFromComment ==
    /\ builder_calls = <<>>
    /\ \E comment \in CommentInputs :
          builder_calls' = <<[op |-> "parse_tags_from_comment", args |-> <<comment>>,
                              result |-> parse_tags_from_comment(comment)]>>
    /\ UNCHANGED <<export_call, storeVars, diffVars, run, fwd, bwd, ppc, summary>>

InitTags == Seeded(0, <<>>)

NextTags ==
    \/ ParseTagsFromComment

SpecTags == InitTags /\ [][NextTags]_vars

(***************************************************************************)
(* Diff calls on two snapshots of a source that changed in several places  *)
(***************************************************************************)
\* the databases the two earlier exports saw: with or without schema analytics,
\* table orders and a nullable email column
ChangedDbs == {db \in Toggles : ~db.emailComment}

InitRecords == \E src1 \in ChangedDbs, src2 \in ChangedDbs : Seeded(2, <<src1, src2>>)

SpecRecords == InitRecords /\ [][NextFaults]_vars

(***************************************************************************)
(* Two extractions of one unchanged source, compared                       *)
(*                                                                         *)
(* Column email of table public.users is extracted by _extract_columns for *)
(* sync run 1 and again for sync run 2, each extraction in a process of    *)
(* its own, from the same comment, YAML tags and catalog facts.            *)
(***************************************************************************)
\* list(set(tags)): the distinct tags in the iteration order of a set of strings,
\* which the string hashing of the running process decides
ListOfSet(tags) ==
    LET distinct == {tags[i] : i \in DOMAIN tags}
    IN  {order \in [1..Cardinality(distinct) -> distinct] :
            {order[i] : i \in DOMAIN order} = distinct}

\* the tags _extract_columns collects for a column: those of its comment, then
\* those of the YAML file
CollectedTags(comment, yaml_tags) ==
    (IF comment # NULL /\ comment # <<>> THEN parse_tags_from_comment(comment) ELSE <<>>)
        \o yaml_tags

\* the columns _extract_columns can build for one row of columns_data
extract_columns(b, database_name, schema_name, table_name, col) ==
    LET tags == CollectedTags(col.comment, col.yaml_tags)
    IN  {create_column(b, database_name, schema_name, table_name, col.column_name,
                       col.data_type, col.is_nullable, col.ordinal_position,
                       [column_default |-> None,
                        comment |-> IF col.comment = NULL THEN None ELSE Str(col.comment),
                        tags |-> List([i \in DOMAIN order |-> Str(order[i])]),
                        is_primary_key |-> Bool(col.is_primary_key),
                        is_unique |-> Bool(FALSE),
                        is_foreign_key |-> Bool(FALSE),
                        is_indexed |-> Bool(col.is_primary_key)]) :
            order \in IF tags # <<>> THEN ListOfSet(tags) ELSE {<<>>}}

\* comments of column email: none, without a marker, with one, two and three tags,
\* and with one tag twice
EmailComments ==
    {NULL, <<"m", "a", "i", "l">>,
     <<"[", "t", "a", "g", "s", ":", "p", "]">>,
     <<"[", "t", "a", "g", "s", ":", "p", ",", "e", "]">>,
     <<"[", "t", "a", "g", "s", ":", "p", ",", "e", ",", "c", "]">>,
     <<"[", "t", "a", "g", "s", ":", "p", ",", "p", "]">>}

\* what the source holds for column email
EmailSources ==
    [column_name : {S("email")}, data_type : {S("text")}, ordinal_position : {"2"},
     is_nullable : BOOLEAN, is_primary_key : BOOLEAN,
     comment : EmailComments, yaml_tags : {<<>>, <<<<"p">>>>, <<<<"g">>>>}]

\* the rows of one sync run whose email column is the extracted one
ExtractedRows(kind, sync_id, email) ==
    SnapshotRows(kind, sync_id, {}, FALSE)
        \cup (IF kind = "column" THEN {StoredRow(sync_id, email, sync_id)} ELSE {})

InitExtract ==
    /\ \E col \in EmailSources :
          \E e1 \in extract_columns(Builder(S("acme"), 1, 1), Database, S("public"),
                                    S("users"), col),
             e2 \in extract_columns(Builder(S("acme"), 2, 2), Database, S("public"),
                                    S("users"), col) :
             /\ normalized_schemas = ExtractedRows("schema", 1, e1)
                                         \cup ExtractedRows("schema", 2, e2)
             /\ normalized_tables = ExtractedRows("table", 1, e1)
                                        \cup ExtractedRows("table", 2, e2)
             /\ normalized_columns = ExtractedRows("column", 1, e1)
                                         \cup ExtractedRows("column", 2, e2)
             /\ builder_calls = <<[op |-> "extract_columns", args |-> <<col>>, result |-> e1],
                                  [op |-> "extract_columns", args |-> <<col>>, result |-> e2]>>
    /\ sync_runs = finalize_sync_run(finalize_sync_run(
                        InsertSyncRun(InsertSyncRun({}, 1, S("postgres"), S("acme"),
                                                    S("default"), 1),
                                      2, S("postgres"), S("acme"), S("default"), 2),
                        1, "completed", NULL), 2, "completed", NULL)
    /\ diff_sync_runs = {}
    /\ incremental_diff_schema = {}
    /\ incremental_diff_table = {}
    /\ incremental_diff_column = {}
    /\ quality_metrics_runs = {}
    /\ clock = 3
    /\ export_call = NoExportCall
    /\ run = IdleRun
    /\ fwd = NoClassification
    /\ bwd = NoClassification
    /\ ppc = "init"
    /\ summary = NoSummary

SpecExtract == InitExtract /\ [][NextDiff]_vars

(***************************************************************************)
(* QualityMetricsExtractor: the quality summary and its score              *)
(*                                                                         *)
(* A score is [t |-> "float" or "int", tenths |-> ten times its value].    *)
(***************************************************************************)
Float(tenths) == [t |-> "float", tenths |-> tenths]
IntScore(n) == [t |-> "int", tenths |-> 10 * n]

\* round(n / d, 1) in tenths: the nearest tenth, a tie going to the even one.  The
\* float quotient is either exact or further from a tie than its binary error for
\* the totals drawn below (binary error first decides a tie at 56 columns)
Round1(n, d) ==
    LET tenths == (10 * n) \div d
        rest == (10 * n) % d
    IN  IF 2 * rest < d THEN tenths
        ELSE IF 2 * rest > d THEN tenths + 1
        ELSE IF tenths % 2 = 0 THEN tenths ELSE tenths + 1

\* min(100, x) and max(0, x) give their first argument unless the second is
\* strictly smaller, respectively strictly larger
Min100(x) == IF x.tenths < 1000 THEN x ELSE IntScore(100)
Max0(x) == IF x.tenths > 0 THEN x ELSE IntScore(0)

ZeroDivisionError == [raised |-> S("ZeroDivisionError")]

\* variant: no early return for zero columns
calculate_quality_score_unguarded(total_columns, high_null_columns, low_distinct_columns) ==
    IF total_columns = 0 THEN ZeroDivisionError
    ELSE Max0(Min100(Float(Round1(100 * total_columns - 30 * high_null_columns
                                      - 20 * low_distinct_columns, total_columns))))

\* _calculate_quality_score: 100 - (high / total) * 30 - (low / total) * 20
calculate_quality_score(total_columns, high_null_columns, low_distinct_columns) ==
    IF total_columns = 0 THEN Float(1000)
    ELSE Max0(Min100(Float(Round1(100 * total_columns - 30 * high_null_columns
                                      - 20 * low_distinct_columns, total_columns))))

\* the tables and the column metrics of metrics, by position: metrics is the list of
\* metrics.values(), each a list of tables, each the list of its column metrics
TableMetricsOf(metrics) == UNION {{<<i, j>> : j \in DOMAIN metrics[i]} : i \in DOMAIN metrics}

ColumnMetricsOf(metrics) ==
    UNION {{<<p[1], p[2], k>> : k \in DOMAIN metrics[p[1]][p[2]]} : p \in TableMetricsOf(metrics)}

ColumnMetric(metrics, p) == metrics[p[1]][p[2]][p[3]]

QualitySummary(op, metrics, total_tables, total_columns, high_null_columns, low_distinct_columns, quality_score) ==
    [op |-> op, metrics |-> metrics, total_tables |-> total_tables,
     total_columns |-> total_columns, high_null_columns |-> high_null_columns,
     low_distinct_columns |-> low_distinct_columns, quality_score |-> quality_score]

\* variant: the thresholds are inclusive
get_data_quality_summary_inclusive(metrics) ==
    LET columns == ColumnMetricsOf(metrics)
        total_columns == Cardinality(columns)
        high_null_columns ==
            Cardinality({p \in columns : ColumnMetric(metrics, p).null_percentage >= 50})
        low_distinct_columns ==
            Cardinality({p \in columns :
                            /\ ColumnMetric(metrics, p).distinct_percentage <= 10
                            /\ ColumnMetric(metrics, p).total_count >= 100})
    IN  QualitySummary("get_data_quality_summary", metrics,
                       Cardinality(TableMetricsOf(metrics)), total_columns,
                       high_null_columns, low_distinct_columns,
                       calculate_quality_score(total_columns, high_null_columns,
                                               low_distinct_columns))

\* get_data_quality_summary
get_data_quality_summary(metrics) ==
    LET columns == ColumnMetricsOf(metrics)
        total_columns == Cardinality(columns)
        high_null_columns ==
            Cardinality({p \in columns : ColumnMetric(metrics, p).null_percentage > 50})
        low_distinct_columns ==
            Cardinality({p \in columns :
                            /\ ColumnMetric(metrics, p).distinct_percentage < 10
                            /\ ColumnMetric(metrics, p).total_count > 100})
    IN  QualitySummary("get_data_quality_summary", metrics,
                       Cardinality(TableMetricsOf(metrics)), total_columns,
                       high_null_columns, low_distinct_columns,
                       calculate_quality_score(total_columns, high_null_columns,
                                               low_distinct_columns))

\* column metrics on both sides of each threshold
ColumnMetricKinds ==
    {[null_percentage |-> np, distinct_percentage |-> d[1], total_count |-> d[2]] :
        np \in {50, 51}, d \in {<<9, 101>>, <<10, 101>>, <<9, 100>>}}

\* one schema whose one table has 100 columns: 40 with many nulls, 5 with few
\* distinct values, 55 with neither
HundredColumns ==
    <<<<[k \in 1..100 |->
            IF k <= 40
            THEN [null_percentage |-> 80, distinct_percentage |-> 60, total_count |-> 500]
            ELSE IF k <= 45
            THEN [null_percentage |-> 0, distinct_percentage |-> 2, total_count |-> 500]
            ELSE [null_percentage |-> 0, distinct_percentage |-> 60, total_count |-> 500]]>>>>

\* one schema with two tables: the first `first` of the columns, and the rest
TwoTables(columns, first) ==
    <<<<[k \in 1..first |-> columns[k]],
        [k \in 1..(Len(columns) - first) |-> columns[first + k]]>>>>

\* the metrics drawn: up to MaxColumnMetrics columns over two tables, and the
\* hundred columns
MetricsInputs ==
    UNION {{TwoTables(columns, first) : first \in 0..Len(columns)} :
              columns \in UNION {[1..n -> ColumnMetricKinds] : n \in 0..MaxColumnMetrics}}
        \cup {HundredColumns}

\* _calculate_quality_score called with any three counts
CalculateQualityScore ==
    /\ summary = NoSummary
    /\ \E total_columns \in 0..MaxTotalColumns, high_null_columns \in 0..MaxTotalColumns,
          low_distinct_columns \in 0..MaxTotalColumns :
          summary' = QualitySummary("calculate_quality_score", <<>>, 0, total_columns,
                         high_null_columns, low_distinct_columns,
                         calculate_quality_score(total_columns, high_null_columns,
                                                 low_distinct_columns))
    /\ UNCHANGED <<export_call, storeVars, diffVars, run, fwd, bwd, ppc, builder_calls>>

GetDataQualitySummary ==
    /\ summary = NoSummary
    /\ \E metrics \in MetricsInputs : summary' = get_data_quality_summary(metrics)
    /\ UNCHANGED <<export_call, storeVars, diffVars, run, fwd, bwd, ppc, builder_calls>>

InitScore == Seeded(0, <<>>)

NextScore ==
    \/ CalculateQualityScore
    \/ GetDataQualitySummary

SpecScore == InitScore /\ [][NextScore]_vars

(***************************************************************************)
(* Properties of the comparison of two snapshots (under SpecDiff)          *)
(***************************************************************************)
\* C1: for each entity kind the diff phase classifies every composite key of the
\* union of the older and the newer run's keys into exactly one of added, removed,
\* modified, unchanged, so that the four counts add up to the size of the union.
C1_EveryKeyInOneClass ==
    \A kind \in Kinds :
        LET older == {KeyOf(kind, r) : r \in GetRows(kind, Normalized(kind), 1)}
            newer == {KeyOf(kind, r) : r \in GetRows(kind, Normalized(kind), 2)}
            Count(c, ct) == Cardinality({k \in DOMAIN c : c[k].change_type = ct})
            Partitioned(c) ==
                /\ DOMAIN c = older \cup newer
                /\ \A k \in DOMAIN c :
                       c[k].change_type \in {"added", "removed", "modified", "unchanged"}
                /\ Count(c, "added") + Count(c, "removed") + Count(c, "modified")
                       + Count(c, "unchanged") = Cardinality(older \cup newer)
        IN  /\ ppc \in {"forward", "both"} => Partitioned(fwd[kind])
            /\ ppc = "both" => Partitioned(bwd[kind])

\* a comparison whose columns fall into three classes and whose schemas into two
C1_Witness ==
    /\ ppc = "forward"
    /\ \E k1, k2, k3 \in DOMAIN fwd["column"] :
          /\ fwd["column"][k1].change_type = "added"
          /\ fwd["column"][k2].change_type = "modified"
          /\ fwd["column"][k3].change_type = "unchanged"
    /\ \E k \in DOMAIN fwd["schema"] : fwd["schema"][k].change_type = "added"
    /\ \E k \in DOMAIN fwd["schema"] : fwd["schema"][k].change_type = "unchanged"

\* C3: for one composite key, an entity only in the newer run is added, one only in
\* the older run is removed; for an entity in both, the differences map has exactly
\* one entry per field, of the union of the keys of the two attributes maps and of
\* the two custom_attributes maps, whose values differ (a missing key counts as
\* None), under the path attributes.<field> or custom_attributes.<field> with the
\* old and the new value, and the entity is modified iff that map is non-empty, else
\* unchanged.  And when only email's isNullable changed from false to true, the one
\* changed key is that column, modified, with {attributes.isNullable: {false, true}}.
C3_PerKeyRule ==
    ppc \in {"forward", "both"} =>
    \A kind \in Kinds :
        LET rows_1 == GetRows(kind, Normalized(kind), 1)
            rows_2 == GetRows(kind, Normalized(kind), 2)
            keys_1 == {KeyOf(kind, r) : r \in rows_1}
            keys_2 == {KeyOf(kind, r) : r \in rows_2}
            c == fwd[kind]
            Fields(m) == IF m = NoMap THEN {} ELSE DOMAIN m
            Val(m, f) == IF f \in Fields(m) THEN m[f] ELSE None
            Differing(m1, m2) == {f \in Fields(m1) \cup Fields(m2) : Val(m1, f) # Val(m2, f)}
        IN  \A k \in keys_1 \cup keys_2 :
               /\ k \notin keys_1 => c[k].change_type = "added"
               /\ k \notin keys_2 => c[k].change_type = "removed"
               /\ k \in keys_1 \cap keys_2 =>
                     LET a1 == c[k].sync_run_1_data
                         a2 == c[k].sync_run_2_data
                         d == c[k].differences
                     IN  /\ a1 \in rows_1 /\ KeyOf(kind, a1) = k
                         /\ a2 \in rows_2 /\ KeyOf(kind, a2) = k
                         /\ DOMAIN d =
                                {<<"attributes", f>> : f \in Differing(a1.attributes, a2.attributes)}
                                \cup {<<"custom_attributes", f>> :
                                          f \in Differing(a1.custom_attributes, a2.custom_attributes)}
                         /\ \A f \in Differing(a1.attributes, a2.attributes) :
                                d[<<"attributes", f>>] =
                                    [old |-> Val(a1.attributes, f), new |-> Val(a2.attributes, f)]
                         /\ \A f \in Differing(a1.custom_attributes, a2.custom_attributes) :
                                d[<<"custom_attributes", f>>] =
                                    [old |-> Val(a1.custom_attributes, f),
                                     new |-> Val(a2.custom_attributes, f)]
                         /\ c[k].change_type = IF DOMAIN d # {} THEN "modified" ELSE "unchanged"
               /\ (/\ kind = "column"
                   /\ k = <<S("public"), S("users"), S("email")>>
                   /\ \E r1 \in rows_1, r2 \in rows_2 :
                         /\ KeyOf(kind, r1) = k /\ KeyOf(kind, r2) = k
                         /\ r1.attributes # NoMap /\ "isNullable" \in DOMAIN r1.attributes
                         /\ r1.attributes.isNullable = Bool(FALSE)
                         /\ r2.attributes = [r1.attributes EXCEPT !.isNullable = Bool(TRUE)]
                         /\ r2.custom_attributes = r1.custom_attributes
                         /\ {[name |-> r.name, attributes |-> r.attributes,
                               custom_attributes |-> r.custom_attributes] : r \in rows_1 \ {r1}}
                            = {[name |-> r.name, attributes |-> r.attributes,
                                custom_attributes |-> r.custom_attributes] : r \in rows_2 \ {r2}}
                         /\ Cardinality(rows_1) = Cardinality(keys_1)
                         /\ Cardinality(rows_2) = Cardinality(keys_2))
                  => /\ {j \in DOMAIN c : c[j].change_type # "unchanged"} = {k}
                     /\ c[k].change_type = "modified"
                     /\ c[k].differences =
                            [p \in {<<"attributes", "isNullable">>} |->
                                [old |-> Bool(FALSE), new |-> Bool(TRUE)]]
                     /\ \A j \in DOMAIN fwd["schema"] : fwd["schema"][j].change_type = "unchanged"
                     /\ \A j \in DOMAIN fwd["table"] : fwd["table"][j].change_type = "unchanged"

\* email's isNullable went from false to true and nothing else changed
C3_Witness ==
    /\ ppc = "forward"
    /\ LET k == <<S("public"), S("users"), S("email")>>
           c == fwd["column"]
       IN  /\ k \in DOMAIN c
           /\ c[k].change_type = "modified"
           /\ DOMAIN c[k].differences = {<<"attributes", "isNullable">>}
           /\ c[k].sync_run_1_data.attributes.isNullable = Bool(FALSE)
           /\ c[k].sync_run_2_data.attributes.isNullable = Bool(TRUE)
           /\ \A j \in DOMAIN c \ {k} : c[j].change_type = "unchanged"
           /\ Cardinality({r \in normalized_columns : r.name = S("email")}) = 2

\* C4 as stated: diffing a snapshot against an identical copy of itself (same
\* entities, same attributes and custom attributes) yields no added, no removed
\* and no modified key for any entity kind, so that no diff record is persisted.
C4_IdenticalCopyYieldsNoChange ==
    LET Content(kind, sync_id) ==
            {[name |-> r.name, attributes |-> r.attributes,
              custom_attributes |-> r.custom_attributes] :
                r \in GetRows(kind, Normalized(kind), sync_id)}
    IN  (/\ ppc \in {"forward", "both"}
         /\ \A kind \in Kinds : Content(kind, 1) = Content(kind, 2))
        => \A kind \in Kinds : ChangedKeys(fwd[kind]) = {}

\* C5 as stated: diffing (A, B) and diffing (B, A) give the same modified keys and
\* the same unchanged keys, and the keys added one way are the keys removed the
\* other way.
C5_DirectionSwapsAddedAndRemoved ==
    LET Class(c, ct) == {k \in DOMAIN c : c[k].change_type = ct}
    IN  ppc = "both" =>
        \A kind \in Kinds :
            /\ Class(fwd[kind], "modified") = Class(bwd[kind], "modified")
            /\ Class(fwd[kind], "unchanged") = Class(bwd[kind], "unchanged")
            /\ Class(fwd[kind], "added") = Class(bwd[kind], "removed")
            /\ Class(fwd[kind], "removed") = Class(bwd[kind], "added")

(***************************************************************************)
(* Properties of run_incremental_diff (under Spec)                         *)
(***************************************************************************)
\* C2: in each diff phase a diff record is persisted for exactly the composite keys
\* classified added, removed or modified and for no unchanged key, and the change
\* count the phase returns is the number of diff records persisted under that
\* diff_sync_id for that entity kind.
C2_RecordsForChangedKeysOnly ==
    LET finished ==
            CASE run.pc = "table" -> {"schema"}
              [] run.pc = "column" -> {"schema", "table"}
              [] run.pc = "finalize" -> Kinds
              [] run.pc \in {"except", "returned", "raised"} /\ run.diff_sync_id # NoDiffId ->
                    CASE run.failed_in = "schema" -> {}
                      [] run.failed_in = "table" -> {"schema"}
                      [] run.failed_in = "column" -> {"schema", "table"}
                      [] OTHER -> Kinds
              [] OTHER -> {}
    IN  \A kind \in finished :
            LET c == run.classified[kind]
                records == {d \in IncrementalDiff(kind) : d.diff_sync_id = run.diff_sync_id}
            IN  /\ {d.key : d \in records} =
                       {k \in DOMAIN c : c[k].change_type \in {"added", "removed", "modified"}}
                /\ \A d \in records : d.change_type = c[d.key].change_type
                /\ Cardinality(records) = run.changed[kind]
                /\ (run.pc = "returned" /\ run.ret.success) =>
                       Cardinality(records) =
                           CASE kind = "schema" -> run.ret.schemas_changed
                             [] kind = "table" -> run.ret.tables_changed
                             [] kind = "column" -> run.ret.columns_changed

\* the column phase finished with a changed key recorded and an unchanged key not
C2_Witness ==
    /\ run.pc = "finalize"
    /\ run.changed["column"] >= 1
    /\ \E k \in DOMAIN run.classified["column"] :
          run.classified["column"][k].change_type = "unchanged"
    /\ \E d \in incremental_diff_column : d.diff_sync_id = run.diff_sync_id

C7_SecondNewestThenNewest ==
    [][/\ (run.pc = "resolve" /\ run'.pc = "create") =>
            LET mine == {r \in sync_runs : r.connection_name = run.connection_id}
                Newer(r) == {o \in mine : o.sync_timestamp > r.sync_timestamp}
            IN  /\ Cardinality(mine) >= 2
                /\ \E r2 \in mine : Newer(r2) = {} /\ run'.sync_run_2_id = r2.sync_id
                /\ \E r1 \in mine : Cardinality(Newer(r1)) = 1
                                      /\ run'.sync_run_1_id = r1.sync_id
                /\ run'.sync_run_1_id # run'.sync_run_2_id
       /\ (run.pc = "resolve" /\ run'.pc # "resolve"
              /\ Cardinality({r \in sync_runs : r.connection_name = run.connection_id}) >= 2)
            => run'.pc = "create"
       /\ (run.pc = "create" /\ run'.pc = "schema") =>
            /\ run'.sync_run_1_id = run.sync_run_1_id
            /\ run'.sync_run_2_id = run.sync_run_2_id
            /\ \E d \in diff_sync_runs' \ diff_sync_runs :
                  /\ d.diff_sync_id = run'.diff_sync_id
                  /\ d.connection_id = run.connection_id
                  /\ d.sync_run_1_id = run.sync_run_1_id
                  /\ d.sync_run_2_id = run.sync_run_2_id]_vars

\* a diff run was created for a connection with three sync runs, the oldest of
\* which is not compared
C7_Witness ==
    /\ run.pc = "schema"
    /\ LET mine == {r \in sync_runs : r.connection_name = run.connection_id}
       IN  /\ Cardinality(mine) = 3
           /\ \E r \in mine : /\ r.sync_id \notin {run.sync_run_1_id, run.sync_run_2_id}
                                /\ \A o \in mine : r.sync_timestamp <= o.sync_timestamp
    /\ \E d \in diff_sync_runs : /\ d.sync_run_1_id = run.sync_run_1_id
                                   /\ d.sync_run_2_id = run.sync_run_2_id

\* C8 as stated: the two sync runs that run_incremental_diff compares are sync runs
\* whose status is completed; a running or failed sync run is never selected.
C8_OnlyCompletedRunsCompared ==
    [][(run.pc = "resolve" /\ run'.pc = "create") =>
          \A r \in sync_runs :
              r.sync_id \in {run'.sync_run_1_id, run'.sync_run_2_id} => r.status = "completed"]_vars

(***************************************************************************)
(* Properties of a failing diff (under SpecFaults)                         *)
(***************************************************************************)
\* C9 as stated: if an error occurs during the schema, table or column phase, the
\* diff run's status becomes failed with the error message recorded, the phases
\* after the failing one are not executed, and the diff records persisted earlier
\* in that run remain persisted.
C9_FailedPhaseMarksRunFailed ==
    (run.pc \in {"returned", "raised"} /\ run.failed_in \in Kinds) =>
        LET before == CASE run.failed_in = "schema" -> {}
                        [] run.failed_in = "table" -> {"schema"}
                        [] run.failed_in = "column" -> {"schema", "table"}
            Records(kind) == {d \in IncrementalDiff(kind) : d.diff_sync_id = run.diff_sync_id}
        IN  /\ \E d \in diff_sync_runs :
                  /\ d.diff_sync_id = run.diff_sync_id
                  /\ d.status = "failed"
                  /\ d.error_message = run.error
            /\ \A kind \in Kinds \ (before \cup {run.failed_in}) :
                  Records(kind) = {} /\ run.classified[kind] = EmptyMap
            /\ \A kind \in before :
                  {d.key : d \in Records(kind)} = ChangedKeys(run.classified[kind])

\* C9, amended: after an error in the schema, table or column phase the phases after
\* the failing one are not executed and the diff records persisted earlier in that
\* run, those of the failing phase included, remain; the diff run's status is failed
\* with the error message when the call returns, and is still running, with no
\* message, when the write of the failed status itself fails and that exception
\* leaves the call.
C9_FailedPhaseAmended ==
    (run.pc \in {"returned", "raised"} /\ run.failed_in \in Kinds) =>
        LET before == CASE run.failed_in = "schema" -> {}
                        [] run.failed_in = "table" -> {"schema"}
                        [] run.failed_in = "column" -> {"schema", "table"}
            Records(kind) == {d \in IncrementalDiff(kind) : d.diff_sync_id = run.diff_sync_id}
        IN  /\ \E d \in diff_sync_runs :
                  /\ d.diff_sync_id = run.diff_sync_id
                  /\ run.pc = "returned" => d.status = "failed" /\ d.error_message = run.error
                  /\ run.pc = "raised" => d.status = "running" /\ d.error_message = NoError
                  /\ d.completed = FALSE
            /\ \A kind \in Kinds \ (before \cup {run.failed_in}) :
                  Records(kind) = {} /\ run.classified[kind] = EmptyMap
            /\ \A kind \in before :
                  {d.key : d \in Records(kind)} =
                      {k \in DOMAIN run.classified[kind] :
                          run.classified[kind][k].change_type # "unchanged"}

\* the column phase failed after one record; the schema and table records are there
\* and the run is marked failed
C9_Witness ==
    /\ run.pc = "returned"
    /\ run.failed_in = "column"
    /\ \E d \in incremental_diff_schema : d.diff_sync_id = run.diff_sync_id
    /\ \E d \in incremental_diff_table : d.diff_sync_id = run.diff_sync_id
    /\ \E d \in incremental_diff_column : d.diff_sync_id = run.diff_sync_id
    /\ \E d \in diff_sync_runs : d.diff_sync_id = run.diff_sync_id /\ d.status = "failed"

C11_CompletedWithPhaseCounts ==
    (run.pc = "returned" /\ run.ret.success) =>
        /\ \A kind \in Kinds : run.changed[kind] = ChangesCount(run.classified[kind])
        /\ \E d \in diff_sync_runs :
              /\ d.diff_sync_id = run.diff_sync_id
              /\ d.diff_sync_id = run.ret.diff_sync_id
              /\ d.status = "completed"
              /\ d.completed
              /\ d.total_schemas_changed = run.changed["schema"]
              /\ d.total_tables_changed = run.changed["table"]
              /\ d.total_columns_changed = run.changed["column"]
              /\ d.error_message = NoError
        /\ run.ret.schemas_changed = run.changed["schema"]
        /\ run.ret.tables_changed = run.changed["table"]
        /\ run.ret.columns_changed = run.changed["column"]
        /\ run.ret.total_changes =
               run.changed["schema"] + run.changed["table"] + run.changed["column"]

\* a diff succeeded in which every phase counted a change
C11_Witness ==
    /\ run.pc = "returned"
    /\ run.ret.success
    /\ \A kind \in Kinds : run.changed[kind] >= 1
    /\ run.ret.total_changes >= 3
    /\ \E d \in diff_sync_runs : /\ d.diff_sync_id = run.diff_sync_id
                                   /\ d.status = "completed"
                                   /\ d.total_columns_changed >= 1

(***************************************************************************)
(* Properties of the sync run lifecycle (under SpecExports)                *)
(***************************************************************************)
\* C12 as stated: a sync run is created with status running, becomes completed when
\* the metadata export succeeds and failed with the error message attached when it
\* fails, and once its status is completed or failed no later operation (another
\* export or a quality-metrics export with the same sync id included) changes it.
C12_SyncRunLifecycle ==
    [][/\ (export_call'.at = clock /\ export_call'.op = "export_metadata") =>
              \E r \in sync_runs' :
                  /\ r.sync_id = export_call'.sync_id
                  /\ export_call'.outcome = "returned" =>
                         r.status = "completed" /\ r.error_message = NULL
                  /\ export_call'.outcome = "raised" =>
                         r.status = "failed" /\ r.error_message = export_call'.error
       /\ \A r \in sync_runs : r.status \in {"completed", "failed"} => r \in sync_runs']_vars

(***************************************************************************)
(* Properties of the identity of stored entities (under Spec)              *)
(***************************************************************************)
\* C13 as stated: if two entities of the same kind share a composite key within one
\* sync id, the diff engine does not silently keep one of them: the collision is
\* surfaced as an error and is not recovered from, so no diff of a sync run holding
\* such a collision returns success.
C13_CollisionSurfaced ==
    (run.pc = "returned" /\ run.ret.success) =>
        \A kind \in Kinds : \A sync_id \in {run.sync_run_1_id, run.sync_run_2_id} :
            \A r1, r2 \in GetRows(kind, Normalized(kind), sync_id) :
                KeyOf(kind, r1) = KeyOf(kind, r2) => r1 = r2

(***************************************************************************)
(* Properties of the three phases taken together (under SpecFaults)        *)
(***************************************************************************)
\* C14: each entity kind is diffed as an independent flat collection: the diff
\* records of one kind are those computed from the stored entities of that kind in
\* the two snapshots alone.  Removing a schema yields one removed schema record and,
\* independently, one removed record for every table and column that was stored
\* under it; adding a table with two columns yields one added table record and two
\* added column records and no schema record.
C14_KindsDiffedIndependently ==
    (run.pc = "returned" /\ run.ret.success) =>
        LET Records(kind) == {d \in IncrementalDiff(kind) : d.diff_sync_id = run.diff_sync_id}
            Keys(kind, sync_id) ==
                {KeyOf(kind, r) : r \in GetRows(kind, Normalized(kind), sync_id)}
            Older(kind) == Keys(kind, run.sync_run_1_id)
            Newer(kind) == Keys(kind, run.sync_run_2_id)
            OneRecord(kind, k, ct) ==
                /\ Cardinality({d \in Records(kind) : d.key = k}) = 1
                /\ \A d \in Records(kind) : d.key = k => d.change_type = ct
        IN  /\ \A kind \in Kinds :
                  \E c \in PhaseOutcomes(kind, Normalized(kind),
                                         run.sync_run_1_id, run.sync_run_2_id) :
                      Records(kind) =
                          {DiffRecord(run.diff_sync_id, k, c[k]) :
                              k \in {j \in DOMAIN c : c[j].change_type # "unchanged"}}
            /\ \A sk \in Older("schema") \ Newer("schema") :
                  /\ OneRecord("schema", sk, "removed")
                  /\ \A kind \in {"table", "column"} :
                        \A k \in Older(kind) \ Newer(kind) :
                            k[1] = sk[1] => OneRecord(kind, k, "removed")
            /\ \A tk \in Newer("table") \ Older("table") :
                  <<tk[1]>> \in Older("schema") \cap Newer("schema") =>
                      /\ OneRecord("table", tk, "added")
                      /\ \A ck \in Newer("column") \ Older("column") :
                            (ck[1] = tk[1] /\ ck[2] = tk[2]) => OneRecord("column", ck, "added")
                      /\ \A d \in Records("schema") : d.key # <<tk[1]>>
                      /\ tk = <<S("public"), S("orders")>> =>
                            Cardinality({d \in Records("column") :
                                            d.key[1] = tk[1] /\ d.key[2] = tk[2]}) = 2

\* a diff of a snapshot that has schema analytics against one that has lost it and
\* gained table public.orders: one schema record, two table records, three of columns
C14_Witness ==
    /\ run.pc = "returned"
    /\ run.ret.success
    /\ \E d \in incremental_diff_schema :
          d.key = <<S("analytics")>> /\ d.change_type = "removed"
    /\ \E d \in incremental_diff_table :
          d.key = <<S("analytics"), S("events")>> /\ d.change_type = "removed"
    /\ \E d \in incremental_diff_column :
          d.key = <<S("analytics"), S("events"), S("ts")>> /\ d.change_type = "removed"
    /\ \E d \in incremental_diff_table :
          d.key = <<S("public"), S("orders")>> /\ d.change_type = "added"
    /\ Cardinality({d \in incremental_diff_column :
                       d.key[2] = S("orders") /\ d.change_type = "added"}) = 2
    /\ run.ret.schemas_changed = 1
    /\ run.ret.tables_changed = 2
    /\ run.ret.columns_changed = 3

(***************************************************************************)
(* Properties of the entity builder (under SpecBuilder)                    *)
(***************************************************************************)
\* C15: create_column called twice with identical arguments under the same builder
\* context (connection name, tenant id, connector name, sync id) returns identical
\* qualifiedName, attributes and customAttributes: they are a function of the
\* arguments and that context alone.
C15_CreateColumnDeterministic ==
    \A i, j \in DOMAIN builder_calls :
        LET c1 == builder_calls[i]
            c2 == builder_calls[j]
            Context(b) == <<b.connection_name, b.tenant_id, b.connector_name, b.sync_id>>
        IN  (/\ c1.op = "create_column" /\ c2.op = "create_column"
             /\ c1.args = c2.args
             /\ Context(c1.builder) = Context(c2.builder))
            => /\ c1.result.attributes.qualifiedName = c2.result.attributes.qualifiedName
               /\ c1.result.attributes = c2.result.attributes
               /\ c1.result.customAttributes = c2.result.customAttributes

\* the same column built twice, with extra facts, by two builders of one context made
\* at different times
C15_Witness ==
    \E i, j \in DOMAIN builder_calls :
        /\ i < j
        /\ builder_calls[i].op = "create_column" /\ builder_calls[j].op = "create_column"
        /\ builder_calls[i].args = builder_calls[j].args
        /\ builder_calls[i].args.kwargs # EmptyMap
        /\ builder_calls[i].builder.sync_id = builder_calls[j].builder.sync_id
        /\ builder_calls[i].builder.connection_name = builder_calls[j].builder.connection_name
        /\ builder_calls[i].builder.sync_timestamp # builder_calls[j].builder.sync_timestamp

\* C16: the builder constructs every qualifiedName as the '/'-joined path
\* tenantId/connectorName/databaseName[/schemaName[/tableName[/columnName]]], and the
\* ancestor qualified names stored in an entity's attributes (databaseQualifiedName,
\* schemaQualifiedName, tableQualifiedName) equal the qualifiedName the same builder
\* gives to that ancestor entity.
C16_QualifiedNamesArePaths ==
    \A i \in DOMAIN builder_calls :
        LET c == builder_calls[i]
            b == c.builder
            a == c.args
            r == c.result.attributes
            Path(names) == Str(b.tenant_id \o b.connector_name \o names)
            QualifiedName(e) == e.attributes.qualifiedName
        IN  /\ QualifiedName(create_database(b, a.database_name)) = Path(a.database_name)
            /\ c.op = "create_schema" =>
                  /\ r.qualifiedName = Path(a.database_name \o a.schema_name)
                  /\ r.databaseQualifiedName = QualifiedName(create_database(b, a.database_name))
                  /\ r.schemaQualifiedName = r.qualifiedName
                  /\ r.database.v.uniqueAttributes.v.qualifiedName = r.databaseQualifiedName
            /\ (c.op = "create_table" /\ c.result # TypeError) =>
                  /\ r.qualifiedName = Path(a.database_name \o a.schema_name \o a.table_name)
                  /\ r.databaseQualifiedName = QualifiedName(create_database(b, a.database_name))
                  /\ r.schemaQualifiedName =
                         QualifiedName(create_schema(b, a.database_name, a.schema_name))
            /\ c.op = "create_column" =>
                  /\ r.qualifiedName = Path(a.database_name \o a.schema_name \o a.table_name
                                                \o a.column_name)
                  /\ r.databaseQualifiedName = QualifiedName(create_database(b, a.database_name))
                  /\ r.schemaQualifiedName =
                         QualifiedName(create_schema(b, a.database_name, a.schema_name))
                  /\ r.tableQualifiedName =
                         QualifiedName(create_table(b, a.database_name, a.schema_name,
                                                    a.table_name, S("BASE TABLE")))

\* a table and a column of it were built by one builder
C16_Witness ==
    \E i, j \in DOMAIN builder_calls :
        /\ builder_calls[i].op = "create_table"
        /\ builder_calls[i].result # TypeError
        /\ builder_calls[j].op = "create_column"
        /\ builder_calls[i].builder = builder_calls[j].builder
        /\ builder_calls[i].args.schema_name = builder_calls[j].args.schema_name
        /\ builder_calls[j].result.attributes.tableQualifiedName =
               builder_calls[i].result.attributes.qualifiedName

\* C17 as stated: create_table accepts extra facts (has_foreign_keys, is_partitioned,
\* has_indexes, has_primary_key, tablespace, ...) and every extra fact passed appears
\* in the returned table's customAttributes, together with table_type; the
\* extractor's call that passes these facts yields a table entity, not an error.
C17_ExtraFactsPromoted ==
    \A i \in DOMAIN builder_calls :
        LET c == builder_calls[i]
        IN  c.op \in {"create_table", "extract_table_metadata"} =>
                /\ c.result # TypeError
                /\ c.result.typeName = "Table"
                /\ c.result.customAttributes.table_type = Str(c.args.table_type)
                /\ \A k \in DOMAIN c.args.kwargs :
                       /\ k \in DOMAIN c.result.customAttributes
                       /\ c.result.customAttributes[k] = c.args.kwargs[k]

(***************************************************************************)
(* Properties of the quality score (under SpecScore)                       *)
(***************************************************************************)
\* C18: for all total, highNull, lowDistinct with 0 <= highNull <= total and
\* 0 <= lowDistinct <= total the quality score is within [0, 100], and for
\* total = 0 the score is 100.0 whatever the other two inputs are.
C18_ScoreWithinRange ==
    summary.op # "none" =>
        /\ (/\ summary.high_null_columns <= summary.total_columns
            /\ summary.low_distinct_columns <= summary.total_columns)
           => /\ summary.quality_score # ZeroDivisionError
              /\ summary.quality_score.tenths >= 0
              /\ summary.quality_score.tenths <= 1000
        /\ summary.total_columns = 0 => summary.quality_score = Float(1000)

\* the score of no columns with both other counts positive
C18_Witness ==
    /\ summary.op = "calculate_quality_score"
    /\ summary.total_columns = 0
    /\ summary.high_null_columns > 0
    /\ summary.low_distinct_columns > 0
    /\ summary.quality_score = Float(1000)

\* C19: the quality score of a summary equals 100 - 30*(highNull/total)
\* - 20*(lowDistinct/total), rounded to one decimal and clamped to [0, 100], where
\* total is the number of column metrics, highNull counts the columns with
\* null_percentage strictly above 50 and lowDistinct counts the columns with
\* distinct_percentage strictly below 10 and total_count strictly above 100; for
\* 100 columns with 40 high-null and 5 low-distinct the score is 87.0.
C19_ScoreFormula ==
    summary.op = "get_data_quality_summary" =>
        LET all == UNION {UNION {{<<i, j, k>> : k \in DOMAIN summary.metrics[i][j]} :
                                    j \in DOMAIN summary.metrics[i]} :
                             i \in DOMAIN summary.metrics}
            At(p) == summary.metrics[p[1]][p[2]][p[3]]
            total == summary.total_columns
            high == summary.high_null_columns
            low == summary.low_distinct_columns
            exact == 1000 * total - 300 * high - 200 * low
            Abs(x) == IF x < 0 THEN -x ELSE x
        IN  /\ total = Cardinality(all)
            /\ high = Cardinality({p \in all : At(p).null_percentage > 50})
            /\ low = Cardinality({p \in all : At(p).distinct_percentage < 10
                                                /\ At(p).total_count > 100})
            /\ total = 0 => summary.quality_score = Float(1000)
            /\ total > 0 =>
                  /\ 2 * Abs(summary.quality_score.tenths * total - exact) <= total
                  /\ summary.quality_score.tenths >= 0
                  /\ summary.quality_score.tenths <= 1000
            /\ (total = 100 /\ high = 40 /\ low = 5) => summary.quality_score = Float(870)

\* the summary of 100 columns, 40 of them high-null and 5 low-distinct
C19_Witness ==
    /\ summary.op = "get_data_quality_summary"
    /\ summary.total_columns = 100
    /\ summary.high_null_columns = 40
    /\ summary.low_distinct_columns = 5
    /\ summary.quality_score = Float(870)

(***************************************************************************)
(* Properties of the comparison of one field's values (under SpecValues)   *)
(***************************************************************************)
\* C20: the diff compares attribute values by exact structural equality with no
\* type coercion: two values of different JSON types under the same field (the
\* number 5 and the string "5", the boolean true and the number 1) are always
\* reported as a difference, and two values are reported equal only if they have
\* the same type and the same content, recursively for nested maps and lists.
C20_ExactStructuralEquality ==
    ppc \in {"forward", "both"} =>
        LET k == <<S("public"), S("users"), S("email")>>
            c == fwd["column"][k]
            old == c.sync_run_1_data.custom_attributes.tag
            new == c.sync_run_2_data.custom_attributes.tag
            reported == <<"custom_attributes", "tag">> \in DOMAIN c.differences
        IN  /\ old.t # new.t => reported
            /\ ~reported => old = new

(***************************************************************************)
(* Properties of the tag parser (under SpecTags)                           *)
(***************************************************************************)
\* C21: _parse_tags_from_comment returns, for a comment containing a '[tags: ...]'
\* marker (matched case-insensitively), the comma-separated items inside it in their
\* original order, each trimmed of surrounding whitespace, with empty items dropped
\* and the items' own letter case kept; it returns the empty list for a comment
\* without the marker, for the empty comment and for None.
C21_TagsParsed ==
    \A c \in DOMAIN builder_calls :
        builder_calls[c].op = "parse_tags_from_comment" =>
        LET comment == builder_calls[c].args[1]
            tags == builder_calls[c].result
            chars == IF comment = NULL THEN <<>> ELSE comment
            n == Len(chars)
            Opens(p) == /\ p + 5 <= n
                        /\ chars[p] = "["
                        /\ chars[p + 1] \in {"t", "T"} /\ chars[p + 2] \in {"a", "A"}
                        /\ chars[p + 3] \in {"g", "G"} /\ chars[p + 4] \in {"s", "S"}
                        /\ chars[p + 5] = ":"
            \* a marker: an opening at p, its closing bracket at q, something between
            Markers == {m \in (1..n) \X (1..n) :
                           /\ Opens(m[1])
                           /\ m[2] > m[1] + 6
                           /\ chars[m[2]] = "]"
                           /\ \A r \in (m[1] + 6)..(m[2] - 1) : chars[r] # "]"}
        IN  /\ Markers = {} => tags = <<>>
            /\ Markers # {} =>
                  LET m == CHOOSE x \in Markers : \A y \in Markers : x[1] <= y[1]
                      cuts == {r \in (m[1] + 6)..(m[2] - 1) : chars[r] = ","}
                                  \cup {m[1] + 5, m[2]}
                      \* the stretches between two neighbouring commas (or ends)
                      Pieces == {x \in cuts \X cuts :
                                    x[1] < x[2] /\ \A r \in cuts : ~(x[1] < r /\ r < x[2])}
                      Ink(x) == {r \in (x[1] + 1)..(x[2] - 1) : chars[r] # " "}
                      Items == {x \in Pieces : Ink(x) # {}}
                      Lo(x) == CHOOSE r \in Ink(x) : \A o \in Ink(x) : r <= o
                      Hi(x) == CHOOSE r \in Ink(x) : \A o \in Ink(x) : o <= r
                  IN  /\ Len(tags) = Cardinality(Items)
                      /\ \A x \in Items :
                            tags[1 + Cardinality({o \in Items : o[1] < x[1]})]
                                = SubSeq(chars, Lo(x), Hi(x))

\* the comment "Test table [TAGS: Test,Table,Important]" gave Test, Table, Important,
\* and a comment with spaces around its items and an empty item gave the items alone
C21_Witness ==
    /\ builder_calls # <<>>
    /\ builder_calls[1].op = "parse_tags_from_comment"
    /\ \/ /\ builder_calls[1].args[1] \in TestComments
          /\ builder_calls[1].result =
                 <<<<"T", "e", "s", "t">>, <<"T", "a", "b", "l", "e">>,
                   <<"I", "m", "p", "o", "r", "t", "a", "n", "t">>>>
       \/ /\ builder_calls[1].args[1] =
                 <<"[", "T", "A", "G", "S", ":", " ", ",", "B", "]">>
          /\ builder_calls[1].result = <<<<"B">>>>

(***************************************************************************)
(* Properties of the stored snapshots (under Spec)                         *)
(***************************************************************************)
\* C22 as stated: after any sequence of metadata exports, for every sync id and every
\* entity kind no two stored entities have the same composite key (schema: name;
\* table: schema name + name; column: schema name + table name + name).
C22_KeysUniquePerSyncId ==
    \A kind \in Kinds : \A r1, r2 \in Normalized(kind) :
        LET Key(r) == {KeyOf(kind, x) : x \in GetRows(kind, {r}, r.sync_id)}
        IN  (r1.sync_id = r2.sync_id /\ Key(r1) = Key(r2)) => r1 = r2

(***************************************************************************)
(* Properties of repeated diff calls (under SpecRerun)                     *)
(***************************************************************************)
\* C23 as stated: every run_incremental_diff invocation that finds two sync runs
\* creates exactly one diff run with a fresh diff_sync_id never used by an earlier
\* invocation, and every diff record it writes carries that diff_sync_id; re-running
\* the diff after a failed or partial attempt neither modifies nor adds to the
\* records of the earlier attempt.
C23_FreshDiffRunPerCall ==
    [][LET Ids == {d.diff_sync_id : d \in diff_sync_runs}
           Created == {d \in diff_sync_runs' : d.diff_sync_id \notin Ids}
       IN  /\ (
             /\ (run.pc \in {"returned", "raised"} /\ run.found = 2) =>
                   /\ run.diff_sync_id # NoDiffId
                   /\ Cardinality({d \in diff_sync_runs :
                                      d.diff_sync_id = run.diff_sync_id}) = 1
             /\ \A d1, d2 \in diff_sync_runs :
                   d1.diff_sync_id = d2.diff_sync_id => d1 = d2)'
           /\ Cardinality(diff_sync_runs') <= Cardinality(diff_sync_runs) + 1
           /\ \A d \in Created :
                 /\ run.pc = "create" /\ run.diff_sync_id = NoDiffId
                 /\ run'.diff_sync_id = d.diff_sync_id
                 /\ \A kind \in Kinds : \A rec \in IncrementalDiff(kind) :
                       rec.diff_sync_id # d.diff_sync_id
           /\ \A kind \in Kinds :
                 /\ IncrementalDiff(kind) \subseteq IncrementalDiff(kind)'
                 /\ \A rec \in IncrementalDiff(kind)' \ IncrementalDiff(kind) :
                       /\ rec.diff_sync_id = run.diff_sync_id
                       /\ run.diff_sync_id \in Ids
                       /\ \A d \in diff_sync_runs : d.diff_sync_id <= run.diff_sync_id]_vars

\* C23, amended: every run_incremental_diff invocation that finds two sync runs
\* creates at most one diff run: none when the insert of the diff run itself fails,
\* else exactly one, with a fresh diff_sync_id never used by an earlier invocation;
\* every diff record it writes carries that diff_sync_id; re-running the diff after
\* a failed or partial attempt neither modifies nor adds to the records of the
\* earlier attempt.
C23_FreshDiffRunAmended ==
    [][LET Ids == {d.diff_sync_id : d \in diff_sync_runs}
           Created == {d \in diff_sync_runs' : d.diff_sync_id \notin Ids}
       IN  /\ (
             /\ (run.pc \in {"returned", "raised"} /\ run.found = 2) =>
                   IF run.failed_in = "create"
                   THEN run.diff_sync_id = NoDiffId
                   ELSE /\ run.diff_sync_id # NoDiffId
                        /\ Cardinality({d \in diff_sync_runs :
                                           d.diff_sync_id = run.diff_sync_id}) = 1
             /\ \A d1, d2 \in diff_sync_runs :
                   d1.diff_sync_id = d2.diff_sync_id => d1 = d2)'
           /\ Cardinality(diff_sync_runs') <= Cardinality(diff_sync_runs) + 1
           /\ \A d \in Created :
                 /\ run.pc = "create" /\ run.diff_sync_id = NoDiffId
                 /\ run'.diff_sync_id = d.diff_sync_id
                 /\ \A kind \in Kinds : \A rec \in IncrementalDiff(kind) :
                       rec.diff_sync_id # d.diff_sync_id
           /\ \A kind \in Kinds :
                 /\ IncrementalDiff(kind) \subseteq IncrementalDiff(kind)'
                 /\ \A rec \in IncrementalDiff(kind)' \ IncrementalDiff(kind) :
                       /\ rec.diff_sync_id = run.diff_sync_id
                       /\ run.diff_sync_id \in Ids
                       /\ \A d \in diff_sync_runs : d.diff_sync_id <= run.diff_sync_id
           /\ (run.pc = "create" /\ run'.failed_in = "create") =>
                 diff_sync_runs' = diff_sync_runs]_vars

\* the first attempt failed after saving records; the second attempt runs under a
\* new diff_sync_id and has saved records of its own
C23_Witness ==
    /\ run.diff_sync_id = 2
    /\ \E d \in diff_sync_runs : d.diff_sync_id = 1 /\ d.status = "failed"
    /\ \E kind \in Kinds : \E rec \in IncrementalDiff(kind) : rec.diff_sync_id = 1
    /\ \E kind \in Kinds : \E rec \in IncrementalDiff(kind) : rec.diff_sync_id = 2

(***************************************************************************)
(* Properties of the diff run lifecycle (under SpecFaults)                 *)
(***************************************************************************)
\* C24: a diff run moves running -> completed or running -> failed and nothing else:
\* whenever run_incremental_diff has created a diff run and then returns to its
\* caller, that diff run's status is completed or failed (never still running), the
\* status was changed exactly once, the schema phase ran before the table phase and
\* the table phase before the column phase, and completed is only reached after all
\* three phases finished.
C24_DiffRunLifecycle ==
    [][LET Done(kind) == run.classified[kind] # EmptyMap
           Ran(kind) == \/ /\ run'.classified[kind] # run.classified[kind]
                           /\ run'.classified[kind] # EmptyMap
                        \/ IncrementalDiff(kind)' # IncrementalDiff(kind)
                        \/ run'.failed_in = kind /\ run.failed_in # kind
       IN  /\ \A d \in diff_sync_runs' :
                 IF \E o \in diff_sync_runs : o.diff_sync_id = d.diff_sync_id
                 THEN \A o \in diff_sync_runs :
                          (o.diff_sync_id = d.diff_sync_id /\ o.status # d.status) =>
                              /\ o.status = "running"
                              /\ d.status \in {"completed", "failed"}
                              /\ d.status = "completed" =>
                                    Done("schema") /\ Done("table") /\ Done("column")
                 ELSE d.status = "running"
           /\ (run'.pc = "returned" /\ run.pc # "returned" /\ run'.diff_sync_id # NoDiffId) =>
                 \E d \in diff_sync_runs' :
                     /\ d.diff_sync_id = run'.diff_sync_id
                     /\ d.status \in {"completed", "failed"}
                     /\ \E o \in diff_sync_runs :
                           o.diff_sync_id = d.diff_sync_id /\ o.status = "running"
           /\ Ran("schema") => ~Done("schema") /\ ~Done("table") /\ ~Done("column")
           /\ Ran("table") => Done("schema") /\ ~Done("table") /\ ~Done("column")
           /\ Ran("column") => Done("schema") /\ Done("table") /\ ~Done("column")]_vars

\* all three phases finished, the write of the completed status failed, and the
\* call returned with the diff run marked failed
C24_Witness ==
    /\ run.pc = "returned"
    /\ run.failed_in = "finalize"
    /\ \A kind \in Kinds : run.classified[kind] # EmptyMap
    /\ \E d \in diff_sync_runs : d.diff_sync_id = run.diff_sync_id /\ d.status = "failed"

C26_RecordShapeByChangeType ==
    \A kind \in Kinds : \A rec \in IncrementalDiff(kind) :
        /\ rec.change_type = "added" =>
              /\ rec.sync_run_1_data = NoAsset
              /\ rec.sync_run_2_data # NoAsset
              /\ DOMAIN rec.differences = {}
        /\ rec.change_type = "removed" =>
              /\ rec.sync_run_1_data # NoAsset
              /\ rec.sync_run_2_data = NoAsset
              /\ DOMAIN rec.differences = {}
        /\ rec.change_type = "modified" =>
              /\ rec.sync_run_1_data # NoAsset
              /\ rec.sync_run_2_data # NoAsset
              /\ DOMAIN rec.differences # {}

\* a diff has saved an added, a removed and a modified record
C26_Witness ==
    \A ct \in {"added", "removed", "modified"} :
        \E kind \in Kinds : \E rec \in IncrementalDiff(kind) : rec.change_type = ct

(***************************************************************************)
(* Properties of diffs after quality-metrics exports (under Spec)          *)
(***************************************************************************)
\* C27 as stated: running a quality-metrics extraction for a connection between two
\* metadata extractions, or after them, does not change the result of a later diff
\* for that connection: the diff still compares the two most recent metadata
\* snapshots, and never compares a snapshot with a sync run that holds no metadata
\* entities.
C27_QualityRunsIgnoredByDiff ==
    [][(run.pc = "resolve" /\ run'.pc = "create") =>
          LET Holds(id) == \E kind \in Kinds : \E row \in Normalized(kind) : row.sync_id = id
              snapshots == {r \in sync_runs :
                               r.connection_name = run.connection_id /\ Holds(r.sync_id)}
              Newer(r) == {o \in snapshots : o.sync_timestamp > r.sync_timestamp}
          IN  /\ Holds(run'.sync_run_1_id)
              /\ Holds(run'.sync_run_2_id)
              /\ \E r2 \in snapshots : Newer(r2) = {} /\ run'.sync_run_2_id = r2.sync_id
              /\ \E r1 \in snapshots : /\ Cardinality(Newer(r1)) = 1
                                      /\ run'.sync_run_1_id = r1.sync_id]_vars

(***************************************************************************)
(* Properties of an export in progress (under SpecTxn)                     *)
(***************************************************************************)
\* C28: a metadata export is all-or-nothing for readers: in every state a diff can
\* read the store in, while an export is in progress or after it failed none of its
\* entities is stored, and the entities stored under a sync id by one export are
\* all the schemas, tables and columns of that export, next to the sync run's row.
C28_ExportAllOrNothing ==
    LET Stamps == {<<r.sync_id, r.created_at>> :
                      r \in normalized_schemas \cup normalized_tables \cup normalized_columns}
        Group(kind, g) == {r \in Normalized(kind) : r.sync_id = g[1] /\ r.created_at = g[2]}
        Exported(kind, g, schemas) ==
            {StoredRow(g[1], e, g[2]) : e \in EntitiesOf(kind, schemas)}
    IN  /\ \A g \in Stamps :
              /\ \E r \in sync_runs : r.sync_id = g[1]
              /\ \E s \in Group("schema", g) : \E src \in Toggles :
                    LET schemas == BuildSchemas(Builder(s.connection_name, s.last_sync_run,
                                                        s.last_sync_run_at), src)
                    IN  \A kind \in Kinds : Group(kind, g) = Exported(kind, g, schemas)
        /\ (export_call.op = "export_metadata" /\ export_call.outcome \in {"open", "raised"})
              => \A kind \in Kinds : \A r \in Normalized(kind) :
                     r.created_at # CreatedAtDefault(export_call.at)

\* the export has written its schemas and tables but not its columns, and a diff
\* has read the schemas and is about to read the tables
C28_Witness ==
    /\ export_call.outcome = "open"
    /\ export_call.done = 3
    /\ export_call.view.table # normalized_tables
    /\ run.pc = "table"

\* C29: the pair of sync runs chosen at the start of run_incremental_diff is used
\* unchanged by all three phases and by the diff run record: a new extraction for
\* the same connection that completes while the diff is in progress does not change
\* which two sync ids the table and column phases compare.
C29_PairFixedAtStart ==
    [][/\ run.pc \in {"create", "schema", "table", "column", "finalize"} =>
             /\ run'.sync_run_1_id = run.sync_run_1_id
             /\ run'.sync_run_2_id = run.sync_run_2_id
       /\ \A d \in diff_sync_runs' :
             IF \E o \in diff_sync_runs : o.diff_sync_id = d.diff_sync_id
             THEN \A o \in diff_sync_runs :
                      o.diff_sync_id = d.diff_sync_id =>
                          /\ o.sync_run_1_id = d.sync_run_1_id
                          /\ o.sync_run_2_id = d.sync_run_2_id
             ELSE /\ run.pc = "create"
                  /\ d.sync_run_1_id = run.sync_run_1_id
                  /\ d.sync_run_2_id = run.sync_run_2_id
       /\ \A kind \in Kinds :
             (run.pc = kind /\ run'.pc # kind) =>
                 \E d \in diff_sync_runs :
                     /\ d.diff_sync_id = run.diff_sync_id
                     /\ d.sync_run_1_id = run.sync_run_1_id
                     /\ d.sync_run_2_id = run.sync_run_2_id
                     /\ run'.classified[kind] \in
                            PhaseOutcomes(kind, Normalized(kind),
                                          d.sync_run_1_id, d.sync_run_2_id)]_vars

\* an export for the diff's connection was committed under a new sync id after the
\* pair was chosen, and the table and column phases have compared the chosen pair
C29_Witness ==
    /\ run.pc = "finalize"
    /\ export_call.op = "export_metadata"
    /\ export_call.outcome = "returned"
    /\ export_call.sync_id \notin {run.sync_run_1_id, run.sync_run_2_id}
    /\ get_last_two_sync_runs(sync_runs, run.connection_id)
           # <<run.sync_run_1_id, run.sync_run_2_id>>
    /\ \E d \in diff_sync_runs : /\ d.diff_sync_id = run.diff_sync_id
                                   /\ d.sync_run_1_id = run.sync_run_1_id
                                   /\ d.sync_run_2_id = run.sync_run_2_id

(***************************************************************************)
(* Properties of rows that differ outside the two maps (under SpecContexts)*)
(***************************************************************************)
\* C30: only the attributes and custom_attributes maps decide whether an entity
\* present in both snapshots is modified: it is modified exactly when one of the two
\* maps differs between its two stored rows, and differences between the rows in
\* created_at, last sync run id, last sync timestamp, status, connection name,
\* tenant id or connector name never make it modified and never appear in the
\* differences map.
C30_OnlyTheTwoMapsDecide ==
    ppc \in {"forward", "both"} =>
        \A kind \in Kinds : \A r1, r2 \in Normalized(kind) :
            LET Key(r) == CHOOSE k \in {KeyOf(kind, x) : x \in GetRows(kind, {r}, r.sync_id)} :
                              TRUE
            IN  (r1.sync_id = 1 /\ r2.sync_id = 2 /\ Key(r1) = Key(r2)) =>
                    LET c == fwd[kind][Key(r1)]
                    IN  /\ c.change_type \in {"modified", "unchanged"}
                        /\ c.change_type = "modified" <=>
                               \/ r1.attributes # r2.attributes
                               \/ r1.custom_attributes # r2.custom_attributes
                        /\ \A p \in DOMAIN c.differences :
                               \/ /\ p[1] = "attributes"
                                  /\ p[2] \in DOMAIN r1.attributes \cup DOMAIN r2.attributes
                               \/ /\ p[1] = "custom_attributes"
                                  /\ p[2] \in DOMAIN r1.custom_attributes
                                                 \cup DOMAIN r2.custom_attributes
                        /\ \A p \in DOMAIN c.differences :
                               IF p[1] = "attributes"
                               THEN Get(r1.attributes, p[2]) # Get(r2.attributes, p[2])
                               ELSE Get(r1.custom_attributes, p[2])
                                        # Get(r2.custom_attributes, p[2])

\* the two rows of column email differ in every field outside the two maps and the
\* column is classified unchanged
C30_Witness ==
    /\ ppc = "forward"
    /\ fwd["column"][<<S("public"), S("users"), S("email")>>].change_type = "unchanged"
    /\ \E r1, r2 \in normalized_columns :
          /\ r1.name = S("email") /\ r2.name = S("email")
          /\ r1.sync_id = 1 /\ r2.sync_id = 2
          /\ r1.created_at # r2.created_at
          /\ r1.last_sync_run # r2.last_sync_run
          /\ r1.last_sync_run_at # r2.last_sync_run_at
          /\ r1.status # r2.status
          /\ r1.connection_name # r2.connection_name
          /\ r1.tenant_id # r2.tenant_id
          /\ r1.connector_name # r2.connector_name

====
